---- MODULE Spec2Model ----
(***************************************************************************)
(* QOV codec (rebizu/qov-sp): the TypeScript encoder (qov-encoder.ts), the *)
(* LZ4 block codec (lz4.ts), the colour utilities (color-utils.ts) and the *)
(* streaming decoder (qov-streaming-decoder.ts) as a state machine.        *)
(*                                                                         *)
(* Bytes are integers 0..255, byte arrays are sequences (1-based here,     *)
(* 0-based in the source), a pixel is <<r, g, b, a>>, a frame is the       *)
(* sequence of its width*height pixels in raster order, and a null         *)
(* reference (prevFrame, prevYPlane, ...) is the empty sequence.           *)
(***************************************************************************)
EXTENDS Integers, Sequences, FiniteSets, TLC

VARIABLES enc, sent, trace, layout, file, dec, ret, src, bi, calls, timers, clock,
          log, lz

vars == <<enc, sent, trace, layout, file, dec, ret, src, bi, calls, timers, clock,
          log, lz>>

(***************************************************************************)
(* Bounds of the model.                                                    *)
(***************************************************************************)
\* frames encoded in one encoder session
MaxFrames == 3
\* frame width in pixels (the height is 1)
Width == 3
\* concurrently issued decodeFrame calls
MaxCalls == 3

(***************************************************************************)
(* Byte helpers.                                                           *)
(***************************************************************************)
\* F(v), with v computed once before F is applied to it, as a local const
\* of the source is
With(v, F(_)) == CHOOSE r \in {F(w) : w \in {v}} : TRUE

Min(a, b) == IF a < b THEN a ELSE b
Max(a, b) == IF a > b THEN a ELSE b

\* elements i..j of s, 0-based and end-exclusive, clamped like subarray()
SubArray(s, i, j) ==
  LET lo == Min(Max(i, 0), Len(s))
      hi == Min(Max(j, lo), Len(s))
  IN  [k \in 1..(hi - lo) |-> s[lo + k]]

\* s[i], 0-based; reading past the end of a typed array gives undefined,
\* which the arithmetic of the callers (|, <<, &) turns into 0
At(s, i) == IF i >= 0 /\ i < Len(s) THEN s[i + 1] ELSE 0

U16Bytes(v) == <<(v \div 256) % 256, v % 256>>

U32Bytes(v) == <<(v \div 16777216) % 256, (v \div 65536) % 256,
                 (v \div 256) % 256, v % 256>>

\* (s[i] << 24) | (s[i+1] << 16) | (s[i+2] << 8) | s[i+3], a signed 32-bit value
ReadU32(s, i) ==
  (IF At(s, i) >= 128 THEN At(s, i) - 256 ELSE At(s, i)) * 16777216
  + At(s, i + 1) * 65536 + At(s, i + 2) * 256 + At(s, i + 3)

ReadU16(s, i) == At(s, i) * 256 + At(s, i + 1)

\* n times the byte b
Repeat(b, n) == [k \in 1..n |-> b]

(***************************************************************************)
(* LZ4 block codec (lz4.ts).                                               *)
(***************************************************************************)
RECURSIVE Pow2(_)
Pow2(e) == IF e <= 0 THEN 1 ELSE 2 * Pow2(e - 1)

RECURSIVE BitLen(_)
BitLen(n) == IF n <= 0 THEN 0 ELSE 1 + BitLen(n \div 2)

\* The bytes (little-endian) of v * 2654435769 for v = d0 | d1<<8 | d2<<16
\* | d3<<24; 2654435769 = 0x9E3779B9.
HashProduct(d0, d1, d2, d3) ==
  LET c0 == d0 * 185
      c1 == d0 * 121 + d1 * 185 + (c0 \div 256)
      c2 == d0 * 55 + d1 * 121 + d2 * 185 + (c1 \div 256)
      c3 == d0 * 158 + d1 * 55 + d2 * 121 + d3 * 185 + (c2 \div 256)
      c4 == d1 * 158 + d2 * 55 + d3 * 121 + (c3 \div 256)
      c5 == d2 * 158 + d3 * 55 + (c4 \div 256)
      c6 == d3 * 158 + (c5 \div 256)
      c7 == c6 \div 256
  IN  <<c0 % 256, c1 % 256, c2 % 256, c3 % 256,
        c4 % 256, c5 % 256, c6 % 256, c7 % 256>>

\* hash4: the product is an IEEE double (53-bit mantissa, round to nearest,
\* ties to even), >>> 16 takes it modulo 2^32, & 0xffff keeps bits 16..31.
hash4(data, pos) ==
  LET p    == HashProduct(At(data, pos), At(data, pos + 1),
                          At(data, pos + 2), At(data, pos + 3))
      lo   == p[1] + 256 * p[2]
      mid  == p[3] + 256 * p[4]
      top  == p[7] + 256 * p[8]
      e    == BitLen(top) - 5
      half == Pow2(e - 1)
      rest == lo % Pow2(e)
      up   == rest > half \/ (rest = half /\ (lo \div Pow2(e)) % 2 = 1)
      lo2  == lo - rest + (IF up THEN Pow2(e) ELSE 0)
  IN  IF e <= 0 THEN mid
      ELSE IF lo2 >= 65536 THEN (mid + 1) % 65536 ELSE mid

match4(data, pos1, pos2) ==
  /\ At(data, pos1) = At(data, pos2)
  /\ At(data, pos1 + 1) = At(data, pos2 + 1)
  /\ At(data, pos1 + 2) = At(data, pos2 + 2)
  /\ At(data, pos1 + 3) = At(data, pos2 + 3)

\* hashTable[h] = pos; an absent key is the initial -1
HashPut(tbl, h, pos) ==
  [x \in (DOMAIN tbl) \cup {h} |-> IF x = h THEN pos ELSE tbl[x]]

HashGet(tbl, h) == IF h \in DOMAIN tbl THEN tbl[h] ELSE -1

\* the extra length bytes written after a token nibble of 15
RECURSIVE LenExtension(_)
LenExtension(remaining) ==
  IF remaining >= 255 THEN <<255>> \o LenExtension(remaining - 255)
  ELSE <<remaining>>

\* "Extend match forwards"
RECURSIVE ExtendMatch(_, _, _, _)
ExtendMatch(input, pos, ref, matchLen) ==
  IF pos + matchLen < Len(input) - 5
     /\ At(input, ref + matchLen) = At(input, pos + matchLen)
  THEN ExtendMatch(input, pos, ref, matchLen + 1)
  ELSE matchLen

\* one sequence: token, literal length, literals, offset, match length
Lz4Sequence(input, anchor, pos, ref, matchLen) ==
  LET literalLen == pos - anchor
      offset     == pos - ref
      m4         == matchLen - 4
      token      == (IF literalLen >= 15 THEN 240 ELSE literalLen * 16)
                    + (IF m4 >= 15 THEN 15 ELSE m4)
  IN  <<token>>
      \o (IF literalLen >= 15 THEN LenExtension(literalLen - 15) ELSE <<>>)
      \o SubArray(input, anchor, pos)
      \o <<offset % 256, (offset \div 256) % 256>>
      \o (IF m4 >= 15 THEN LenExtension(m4 - 15) ELSE <<>>)

\* "Emit remaining literals (last bytes)"
Lz4LastLiterals(input, anchor) ==
  LET lastLiterals == Len(input) - anchor
  IN  IF lastLiterals > 0
      THEN (IF lastLiterals >= 15
            THEN <<240>> \o LenExtension(lastLiterals - 15)
            ELSE <<lastLiterals * 16>>)
           \o SubArray(input, anchor, Len(input))
      ELSE <<>>

\* the match test of the main loop
Lz4IsMatch(input, pos, ref) ==
  ref >= 0 /\ pos - ref < 65535 /\ match4(input, pos, ref)

\* "Main compression loop": the block before the worthwhile check
RECURSIVE Lz4Loop(_, _, _, _, _)
Lz4Loop(input, pos, anchor, out, tbl) ==
  IF ~(pos < Len(input) - 5) THEN out \o Lz4LastLiterals(input, anchor)
  ELSE With(hash4(input, pos), LAMBDA h :
       LET ref  == HashGet(tbl, h)
           tbl1 == HashPut(tbl, h, pos)
       IN  IF Lz4IsMatch(input, pos, ref)
           THEN With(pos + ExtendMatch(input, pos, ref, 4), LAMBDA pos2 :
                Lz4Loop(input, pos2, pos2,
                        out \o Lz4Sequence(input, anchor, pos, ref, pos2 - pos),
                        IF pos2 < Len(input) - 5
                        THEN HashPut(tbl1, hash4(input, pos2 - 2), pos2 - 2)
                        ELSE tbl1))
           ELSE Lz4Loop(input, pos + 1, anchor, out, tbl1))

Lz4Block(input) == Lz4Loop(input, 0, 0, <<>>, <<>>)

\* a faulty variant of Lz4Worthwhile: every block is taken, whatever its size
Lz4WorthwhileAlways(outLen, inputSize) == TRUE

\* "Check if compression was worthwhile": outPos >= inputSize * 0.95
Lz4Worthwhile(outLen, inputSize) == ~(outLen * 100 >= inputSize * 95)

\* lz4Compress: ok = FALSE is the null return (store uncompressed)
lz4Compress(input) ==
  IF Len(input) = 0 THEN [ok |-> TRUE, data |-> <<>>]
  ELSE With(Lz4Block(input), LAMBDA block :
            IF Lz4Worthwhile(Len(block), Len(input))
            THEN [ok |-> TRUE, data |-> block]
            ELSE [ok |-> FALSE, data |-> <<>>])

\* output[i] = v on a Uint8Array of fixed length: a write past the end is dropped
ArrSet(arr, i, v) ==
  IF i >= 0 /\ i < Len(arr) THEN [arr EXCEPT ![i + 1] = v] ELSE arr

\* a length with its extension bytes: <<length, next inPos>>.  A byte read
\* past the end of the input is undefined and makes the length NaN: the copy
\* loop that follows does not run, as with length 0
RECURSIVE Lz4ReadLen(_, _, _)
Lz4ReadLen(input, inPos, acc) ==
  LET b == At(input, inPos)
  IN  IF ~(inPos < Len(input)) THEN <<0, inPos + 1>>
      ELSE IF b = 255 THEN Lz4ReadLen(input, inPos + 1, acc + b)
      ELSE <<acc + b, inPos + 1>>

\* "Copy literals": output[outPos + i] = input[inPos + i] for i < n
Lz4CopyLiterals(input, inPos, output, outPos, n) ==
  [k \in 1..Len(output) |->
     IF k - 1 >= outPos /\ k - 1 < outPos + n
     THEN At(input, inPos + (k - 1 - outPos)) ELSE output[k]]

\* a faulty variant of Lz4CopyMatch: the match is copied from the output as
\* it was before the copy (a block copy), so a match that overlaps the bytes
\* it produces reads bytes not yet written
Lz4CopyMatchBlock(output, outPos, matchPos, n) ==
  [k \in 1..Len(output) |->
     IF k - 1 >= outPos /\ k - 1 < outPos + n
     THEN At(output, matchPos + (k - 1 - outPos)) ELSE output[k]]

\* "Copy match (may overlap with output)": output[outPos + i] =
\* output[matchPos + i] for i < n, in ascending order of i.  With offset =
\* outPos - matchPos, byte i >= offset reads what the loop wrote at i - offset,
\* so byte i is the old byte at matchPos + (i mod offset).
Lz4CopyMatch(output, outPos, matchPos, n) ==
  LET offset == outPos - matchPos
  IN  [k \in 1..Len(output) |->
         IF k - 1 >= outPos /\ k - 1 < outPos + n
         THEN At(output, matchPos + (IF offset > 0 THEN (k - 1 - outPos) % offset
                                     ELSE k - 1 - outPos))
         ELSE output[k]]

RECURSIVE Lz4DecodeLoop(_, _, _, _)
Lz4DecodeLoop(input, inPos, output, outPos) ==
  IF ~(inPos < Len(input)) THEN output
  ELSE LET token   == At(input, inPos)
           lit     == IF token \div 16 = 15
                      THEN Lz4ReadLen(input, inPos + 1, 15)
                      ELSE <<token \div 16, inPos + 1>>
           out1    == Lz4CopyLiterals(input, lit[2], output, outPos, lit[1])
           inPos1  == lit[2] + lit[1]
           outPos1 == outPos + lit[1]
           offset  == At(input, inPos1) + 256 * At(input, inPos1 + 1)
           mat     == IF token % 16 = 15
                      THEN Lz4ReadLen(input, inPos1 + 2, 19)
                      ELSE <<(token % 16) + 4, inPos1 + 2>>
       IN  IF inPos1 >= Len(input) THEN out1
           ELSE Lz4DecodeLoop(input, mat[2],
                              Lz4CopyMatch(out1, outPos1, outPos1 - offset, mat[1]),
                              outPos1 + mat[1])

lz4Decompress(input, outputSize) ==
  IF Len(input) = 0 THEN <<>>
  ELSE Lz4DecodeLoop(input, 0, Repeat(0, outputSize), 0)

(***************************************************************************)
(* Colour utilities (color-utils.ts).  Math.round(x) is floor(x + 0.5);    *)
(* the coefficients are written in thousandths.                            *)
(***************************************************************************)
Clamp255(x) == Max(0, Min(255, x))

\* Math.round(n / d) for d > 0
RoundDiv(n, d) == (2 * n + d) \div (2 * d)

CeilDiv(n, d) == (n + d - 1) \div d

\* rgbToYuv: <<y, u, v>>
rgbToYuv(r, g, b) ==
  <<Clamp255(RoundDiv(299 * r + 587 * g + 114 * b, 1000)),
    Clamp255(RoundDiv(128000 - 147 * r - 289 * g + 436 * b, 1000)),
    Clamp255(RoundDiv(128000 + 615 * r - 515 * g - 100 * b, 1000))>>

\* yuvToRgb: <<r, g, b>>
yuvToRgb(y, u, v) ==
  <<Clamp255(RoundDiv(1000 * y + 1140 * (v - 128), 1000)),
    Clamp255(RoundDiv(1000 * y - 395 * (u - 128) - 581 * (v - 128), 1000)),
    Clamp255(RoundDiv(1000 * y + 2032 * (u - 128), 1000))>>

PixelYuv(c) == rgbToYuv(c[1], c[2], c[3])

RECURSIVE SumSeq(_)
SumSeq(s) == IF s = <<>> THEN 0 ELSE Head(s) + SumSeq(Tail(s))

\* the source pixels (0-based raster indices) of one chroma sample: the block
\* of bw x bh pixels at (px, py), cut at the frame's edge
ChromaBlock(px, py, bw, bh, width, height) ==
  {(py * bh + dy) * width + (px * bw + dx) :
      dx \in {x \in 0..(bw - 1) : px * bw + x < width},
      dy \in {y \in 0..(bh - 1) : py * bh + y < height}}

\* a subsampled chroma plane: comp = 2 for U, 3 for V
ChromaPlane(pixels, width, height, bw, bh, comp) ==
  LET uvWidth  == CeilDiv(width, bw)
      uvHeight == CeilDiv(height, bh)
      sample(k) ==
        LET blk == ChromaBlock(k % uvWidth, k \div uvWidth, bw, bh, width, height)
            tot == SumSeq([i \in 1..(width * height) |->
                             IF (i - 1) \in blk THEN PixelYuv(pixels[i])[comp] ELSE 0])
        IN  RoundDiv(tot, Cardinality(blk))
  IN  [k \in 1..(uvWidth * uvHeight) |-> sample(k - 1)]

\* rgbaToYuv4xxPlanes: a null aPlane is <<>>
RgbaToPlanes(pixels, width, height, hasAlpha, bw, bh) ==
  [yPlane |-> [i \in 1..(width * height) |-> PixelYuv(pixels[i])[1]],
   uPlane |-> ChromaPlane(pixels, width, height, bw, bh, 2),
   vPlane |-> ChromaPlane(pixels, width, height, bw, bh, 3),
   aPlane |-> IF hasAlpha THEN [i \in 1..(width * height) |-> pixels[i][4]]
              ELSE <<>>]

rgbaToYuv420Planes(pixels, width, height, hasAlpha) ==
  RgbaToPlanes(pixels, width, height, hasAlpha, 2, 2)

rgbaToYuv422Planes(pixels, width, height, hasAlpha) ==
  RgbaToPlanes(pixels, width, height, hasAlpha, 2, 1)

rgbaToYuv444Planes(pixels, width, height, hasAlpha) ==
  RgbaToPlanes(pixels, width, height, hasAlpha, 1, 1)

\* the colorspace dispatch shared by the encoder and the decoders
IsYuv420(colorspace) == colorspace = 16 \/ colorspace = 19

RgbaToYuvPlanes(pixels, width, height, colorspace, hasAlpha) ==
  IF IsYuv420(colorspace) THEN rgbaToYuv420Planes(pixels, width, height, hasAlpha)
  ELSE IF colorspace = 17 THEN rgbaToYuv422Planes(pixels, width, height, hasAlpha)
  ELSE rgbaToYuv444Planes(pixels, width, height, hasAlpha)

\* yuv4xxPlanesToRgba: the chroma sample of pixel (px, py) is (px / bw, py / bh)
PlanesToRgba(yPlane, uPlane, vPlane, aPlane, width, height, bw, bh) ==
  LET uvWidth == CeilDiv(width, bw)
      pix(i) ==
        LET uvIdx == ((i \div width) \div bh) * uvWidth + ((i % width) \div bw)
            rgb   == yuvToRgb(At(yPlane, i), At(uPlane, uvIdx), At(vPlane, uvIdx))
        IN  <<rgb[1], rgb[2], rgb[3], IF aPlane # <<>> THEN At(aPlane, i) ELSE 255>>
  IN  [i \in 1..(width * height) |-> pix(i - 1)]

YuvPlanesToRgba(yPlane, uPlane, vPlane, aPlane, width, height, colorspace) ==
  IF IsYuv420(colorspace)
  THEN PlanesToRgba(yPlane, uPlane, vPlane, aPlane, width, height, 2, 2)
  ELSE IF colorspace = 17
  THEN PlanesToRgba(yPlane, uPlane, vPlane, aPlane, width, height, 2, 1)
  ELSE PlanesToRgba(yPlane, uPlane, vPlane, aPlane, width, height, 1, 1)

(***************************************************************************)
(* Encoder (qov-encoder.ts).  The encoder object is a record; buffer is    *)
(* the GrowableBuffer's content.                                           *)
(***************************************************************************)
QOV_FLAG_HAS_ALPHA == 1
QOV_FLAG_HAS_MOTION == 2
QOV_FLAG_HAS_INDEX == 4
QOV_COLORSPACE_SRGB == 0
QOV_COLORSPACE_SRGBA == 1
QOV_COLORSPACE_YUV420 == 16
QOV_COLORSPACE_YUV422 == 17
QOV_COLORSPACE_YUV444 == 18
QOV_COLORSPACE_YUVA420 == 19
QOV_CHUNK_SYNC == 0
QOV_CHUNK_KEYFRAME == 1
QOV_CHUNK_PFRAME == 2
QOV_CHUNK_INDEX == 240
QOV_CHUNK_END == 255
QOV_CHUNK_FLAG_YUV == 1
QOV_CHUNK_FLAG_COMPRESSED == 16

\* flags & bit, for a single-bit mask
HasFlag(flags, bit) == (flags \div bit) % 2 = 1

\* flags | bit
SetFlag(flags, bit) == IF HasFlag(flags, bit) THEN flags ELSE flags + bit

ZeroPixel == <<0, 0, 0, 0>>

OpaqueBlack == <<0, 0, 0, 255>>

EmptyRgbIndex == [i \in 0..63 |-> ZeroPixel]

EmptyYuvIndex == [i \in 0..63 |-> 0]

\* the constructor
\* the constructor: the encoder it returns; it has no path that fails
QovEncoder(width, height, frameRateNum, frameRateDen, flags, colorspace, compressionEnabled) ==
  [width |-> width, height |-> height, flags |-> flags,
   frameRateNum |-> frameRateNum, frameRateDen |-> frameRateDen,
   colorspace |-> colorspace, compressionEnabled |-> compressionEnabled,
   isYuvMode |-> colorspace >= 16 /\ colorspace <= 19,
   hasAlpha |-> HasFlag(flags, QOV_FLAG_HAS_ALPHA)
                \/ colorspace = QOV_COLORSPACE_YUVA420,
   rgbIndex |-> EmptyRgbIndex, prevPixel |-> OpaqueBlack,
   prevFrame |-> <<>>, prevYPlane |-> <<>>, prevUPlane |-> <<>>,
   prevVPlane |-> <<>>, prevAPlane |-> <<>>,
   keyframes |-> <<>>, frameCount |-> 0, buffer |-> <<>>,
   frameBuffer |-> <<>>]

\* the constructor with the default frame rate, 30 / 1
NewEncoder(width, height, flags, colorspace, compressionEnabled) ==
  QovEncoder(width, height, 30, 1, flags, colorspace, compressionEnabled)

resetRgbIndex(e) == [e EXCEPT !.rgbIndex = EmptyRgbIndex, !.prevPixel = OpaqueBlack]

colorHash(c) == (c[1] * 3 + c[2] * 5 + c[3] * 7 + c[4] * 11) % 64

yuvHash(v) == (v * 3) % 64

\* GrowableBuffer.setByte
setByte(buffer, pos, v) == ArrSet(buffer, pos, v % 256)

\* the four setByte calls that patch a big-endian u32 at pos
PatchU32(buffer, pos, v) ==
  LET b == U32Bytes(v)
  IN  setByte(setByte(setByte(setByte(buffer, pos, b[1]), pos + 1, b[2]),
                      pos + 2, b[3]), pos + 3, b[4])

ChunkHeader(type, flags, size, timestamp) ==
  <<type, flags>> \o U32Bytes(size) \o U32Bytes(timestamp)

EndMarker == <<0, 0, 0, 0, 0, 0, 0, 1>>

\* a faulty variant of finishFrameData: the size of a compressed chunk
\* leaves out the four bytes of the uncompressed-size field
FinishFrameDataShort(buffer, frameData, chunkType, baseFlags, timestamp) ==
  With(lz4Compress(frameData), LAMBDA compressed :
       IF compressed.ok
       THEN buffer
            \o <<chunkType, baseFlags + 16>> \o U32Bytes(Len(compressed.data))
            \o U32Bytes(timestamp) \o U32Bytes(Len(frameData)) \o compressed.data
       ELSE buffer \o <<chunkType, baseFlags>> \o U32Bytes(Len(frameData))
            \o U32Bytes(timestamp) \o frameData)

\* finishFrameData on the frame buffer's content
finishFrameData(buffer, frameData, chunkType, baseFlags, timestamp) ==
  With(lz4Compress(frameData), LAMBDA compressed :
       LET uncompressedSize == Len(frameData)
       IN  IF compressed.ok
           THEN buffer
                \o ChunkHeader(chunkType, SetFlag(baseFlags, QOV_CHUNK_FLAG_COMPRESSED),
                               Len(compressed.data) + 4, timestamp)
                \o U32Bytes(uncompressedSize) \o compressed.data
           ELSE buffer \o ChunkHeader(chunkType, baseFlags, uncompressedSize, timestamp)
                \o frameData)

\* the two ways a frame's data reaches the main buffer: through the frame
\* buffer and finishFrameData, or directly behind a header whose size
\* placeholder is patched afterwards
WriteFrameChunk(e, chunkType, baseFlags, timestamp, frameData) ==
  IF e.compressionEnabled
  THEN finishFrameData(e.buffer, frameData, chunkType, baseFlags, timestamp)
  ELSE LET headerPos == Len(e.buffer)
           b1        == e.buffer \o ChunkHeader(chunkType, baseFlags, 0, timestamp)
           dataStart == Len(b1)
           b2        == b1 \o frameData
       IN  PatchU32(b2, headerPos + 2, Len(b2) - dataStart)

\* the frame buffer after a frame: with compression on it holds the frame's
\* data (opcodes and end marker), otherwise it is not written to
FrameBufferAfter(e, frameData) ==
  IF e.compressionEnabled THEN frameData ELSE e.frameBuffer

writeHeader(e) ==
  [e EXCEPT !.buffer = @ \o <<113, 111, 118, 102, 2, e.flags>>
                         \o U16Bytes(e.width) \o U16Bytes(e.height)
                         \o U16Bytes(e.frameRateNum) \o U16Bytes(e.frameRateDen)
                         \o U32Bytes(0)
                         \o <<0, 0, 0, 0, e.colorspace, 0>>]

\* a faulty variant of writeSync: frames are numbered from 1
WriteSyncFromOne(buffer, frameNumber, timestamp) ==
  buffer \o ChunkHeader(QOV_CHUNK_SYNC, 0, 8, timestamp)
         \o <<81, 79, 86, 83>> \o U32Bytes(frameNumber + 1)

writeSync(buffer, frameNumber, timestamp) ==
  buffer \o ChunkHeader(QOV_CHUNK_SYNC, 0, 8, timestamp)
         \o <<81, 79, 86, 83>> \o U32Bytes(frameNumber)

\* a faulty variant of PushKeyframe: the offset recorded is that of the
\* KEYFRAME chunk, behind the 18-byte SYNC chunk
PushKeyframeAtChunk(e, frameNumber, timestamp) ==
  IF HasFlag(e.flags, QOV_FLAG_HAS_INDEX)
  THEN Append(e.keyframes, [frameNumber |-> frameNumber,
                            offset |-> Len(e.buffer) + 18, timestamp |-> timestamp])
  ELSE e.keyframes

\* "Record keyframe for index"
PushKeyframe(e, frameNumber, timestamp) ==
  IF HasFlag(e.flags, QOV_FLAG_HAS_INDEX)
  THEN Append(e.keyframes, [frameNumber |-> frameNumber,
                            offset |-> Len(e.buffer), timestamp |-> timestamp])
  ELSE e.keyframes

\* a faulty variant of RgbLiteralOp: the alpha difference is not looked at,
\* so a pixel whose alpha changed is written as RGB
RgbLiteralOpNoAlpha(c, ref) == <<254, c[1], c[2], c[3]>>

\* a faulty variant of RgbLiteralOp: the two-bit differences of DIFF are
\* stored with a bias of 1
RgbLiteralOpBias1(c, ref) ==
  LET dr == c[1] - ref[1]
      dg == c[2] - ref[2]
      db == c[3] - ref[3]
      da == c[4] - ref[4]
      small(d) == d >= -2 /\ d <= 1
      nib(d)   == d >= -8 /\ d <= 7
  IN  IF da = 0
      THEN IF small(dr) /\ small(dg) /\ small(db)
           THEN <<64 + ((dr + 1) % 4) * 16 + ((dg + 1) % 4) * 4 + ((db + 1) % 4)>>
           ELSE IF dg >= -32 /\ dg <= 31 /\ nib(dr - dg) /\ nib(db - dg)
           THEN <<128 + dg + 32, (dr - dg + 8) * 16 + (db - dg + 8)>>
           ELSE <<254, c[1], c[2], c[3]>>
      ELSE <<255, c[1], c[2], c[3], c[4]>>

\* a faulty variant of RgbLiteralOp: LUMA is tried before DIFF
RgbLiteralOpLumaFirst(c, ref) ==
  LET dr == c[1] - ref[1]
      dg == c[2] - ref[2]
      db == c[3] - ref[3]
      da == c[4] - ref[4]
      small(d) == d >= -2 /\ d <= 1
      nib(d)   == d >= -8 /\ d <= 7
  IN  IF da = 0
      THEN IF dg >= -32 /\ dg <= 31 /\ nib(dr - dg) /\ nib(db - dg)
           THEN <<128 + dg + 32, (dr - dg + 8) * 16 + (db - dg + 8)>>
           ELSE IF small(dr) /\ small(dg) /\ small(db)
           THEN <<64 + (dr + 2) * 16 + (dg + 2) * 4 + (db + 2)>>
           ELSE <<254, c[1], c[2], c[3]>>
      ELSE <<255, c[1], c[2], c[3], c[4]>>

\* the opcode of a pixel c that is neither a run (or skip) nor an index hit,
\* against the previous pixel (keyframe) or the reference pixel (P-frame)
RgbLiteralOp(c, ref) ==
  LET dr == c[1] - ref[1]
      dg == c[2] - ref[2]
      db == c[3] - ref[3]
      da == c[4] - ref[4]
      small(d) == d >= -2 /\ d <= 1
      nib(d)   == d >= -8 /\ d <= 7
  IN  IF da = 0
      THEN IF small(dr) /\ small(dg) /\ small(db)
           THEN <<64 + (dr + 2) * 16 + (dg + 2) * 4 + (db + 2)>>
           ELSE IF dg >= -32 /\ dg <= 31 /\ nib(dr - dg) /\ nib(db - dg)
           THEN <<128 + dg + 32, (dr - dg + 8) * 16 + (db - dg + 8)>>
           ELSE <<254, c[1], c[2], c[3]>>
      ELSE <<255, c[1], c[2], c[3], c[4]>>

\* a faulty variant of RunFull: a run is written once it holds 63 pixels
RunFullAt63(count, last) == count = 63 \/ last

\* "run === 62 || px === pixelCount - 1": the run (or skip) that has reached
\* count pixels is written now
RunFull(count, last) == count = 62 \/ last

\* the passes of a loop through its run (skip) branch, taken together: how
\* many samples from position px on are counted until the run is written or
\* a sample that is not Same ends it; run is the count so far
RunStretch(Same(_), px, run, pixelCount) ==
  LET ends == {n \in 1..(pixelCount - px) :
                 RunFull(run + n, px + n = pixelCount) \/ ~Same(px + n)}
  IN  CHOOSE n \in ends : \A m \in ends : n <= m

\* the RUN / SKIP opcodes among the bytes just written: a pending count of
\* up to 62 is written as one, a longer one as SKIP_LONG
RunBytes(count) == IF count > 0 /\ count <= 62 THEN <<192 + count - 1>> ELSE <<>>

\* a pending skip: SKIP up to 62, SKIP_LONG beyond
SkipOp(skip) == IF skip <= 62 THEN <<192 + skip - 1>> ELSE <<0>> \o U16Bytes(skip)

\* encodeRgbKeyframeData: [out, rgbIndex, prevPixel, runs]; runs lists the
\* bytes written as RUN opcodes, in the order written
RECURSIVE encodeRgbKeyframeData(_, _, _, _, _, _, _, _)
encodeRgbKeyframeData(pixels, pixelCount, px, run, rgbIndex, prevPixel, out, runs) ==
  IF ~(px < pixelCount)
  THEN [out |-> out \o EndMarker, rgbIndex |-> rgbIndex, prevPixel |-> prevPixel,
        runs |-> runs]
  ELSE LET c == pixels[px + 1]
       IN  IF c = prevPixel
           THEN With(RunStretch(LAMBDA k : pixels[k + 1] = prevPixel, px, run,
                                pixelCount), LAMBDA n :
                IF RunFull(run + n, px + n = pixelCount)
                THEN encodeRgbKeyframeData(pixels, pixelCount, px + n, 0, rgbIndex,
                                           prevPixel, out \o <<192 + run + n - 1>>,
                                           Append(runs, 192 + run + n - 1))
                ELSE encodeRgbKeyframeData(pixels, pixelCount, px + n, run + n,
                                           rgbIndex, prevPixel, out, runs))
           ELSE LET flushed == IF run > 0 THEN out \o <<192 + run - 1>> ELSE out
                    idx     == colorHash(c)
                    op      == IF rgbIndex[idx] = c THEN <<idx>>
                               ELSE RgbLiteralOp(c, prevPixel)
                IN  encodeRgbKeyframeData(pixels, pixelCount, px + 1, 0,
                                          [rgbIndex EXCEPT ![idx] = c], c,
                                          flushed \o op,
                                          IF run > 0 THEN Append(runs, 192 + run - 1)
                                          ELSE runs)

\* encodeRgbPFrameData: [out, rgbIndex, runs]; runs lists the bytes written
\* as SKIP opcodes, in the order written
RECURSIVE encodeRgbPFrameData(_, _, _, _, _, _, _, _)
encodeRgbPFrameData(pixels, prevFrameRef, pixelCount, px, skip, rgbIndex, out, runs) ==
  IF ~(px < pixelCount)
  THEN [out |-> out \o EndMarker, rgbIndex |-> rgbIndex, runs |-> runs]
  ELSE LET c   == pixels[px + 1]
           ref == prevFrameRef[px + 1]
       IN  IF c = ref
           THEN With(RunStretch(LAMBDA k : pixels[k + 1] = prevFrameRef[k + 1], px,
                                skip, pixelCount), LAMBDA n :
                IF RunFull(skip + n, px + n = pixelCount)
                THEN encodeRgbPFrameData(pixels, prevFrameRef, pixelCount, px + n, 0,
                                         rgbIndex, out \o <<192 + skip + n - 1>>,
                                         Append(runs, 192 + skip + n - 1))
                ELSE encodeRgbPFrameData(pixels, prevFrameRef, pixelCount, px + n,
                                         skip + n, rgbIndex, out, runs))
           ELSE LET flushed == IF skip > 0 THEN out \o SkipOp(skip) ELSE out
                IN  encodeRgbPFrameData(pixels, prevFrameRef, pixelCount, px + 1, 0,
                                        [rgbIndex EXCEPT ![colorHash(c)] = c],
                                        flushed \o RgbLiteralOp(c, ref),
                                        runs \o RunBytes(skip))

\* the DIFF / LUMA / FULL choice of the plane encoders for a difference d
PlaneLiteralOp(val, d) ==
  IF d >= -8 /\ d <= 7 THEN <<64 + ((d + 8) % 16)>>
  ELSE IF d >= -32 /\ d <= 31 THEN <<128 + d + 32>>
  ELSE <<254, val>>

\* encodeYuvPlaneKeyframe: [out, index, runs]; runs lists the bytes written
\* as RUN opcodes, in the order written
RECURSIVE encodeYuvPlaneKeyframe(_, _, _, _, _, _, _)
encodeYuvPlaneKeyframe(plane, i, prevVal, run, index, out, runs) ==
  IF ~(i < Len(plane)) THEN [out |-> out, index |-> index, runs |-> runs]
  ELSE LET val == plane[i + 1]
       IN  IF val = prevVal
           THEN With(RunStretch(LAMBDA k : plane[k + 1] = prevVal, i, run,
                                Len(plane)), LAMBDA n :
                IF RunFull(run + n, i + n = Len(plane))
                THEN encodeYuvPlaneKeyframe(plane, i + n, prevVal, 0, index,
                                            out \o <<192 + run + n - 1>>,
                                            Append(runs, 192 + run + n - 1))
                ELSE encodeYuvPlaneKeyframe(plane, i + n, prevVal, run + n, index,
                                            out, runs))
           ELSE LET flushed == IF run > 0 THEN out \o <<192 + run - 1>> ELSE out
                    idx     == yuvHash(val)
                    op      == IF index[idx] = val /\ i > 0 THEN <<idx>>
                               ELSE PlaneLiteralOp(val, val - prevVal)
                IN  encodeYuvPlaneKeyframe(plane, i + 1, val, 0,
                                           [index EXCEPT ![idx] = val], flushed \o op,
                                           IF run > 0 THEN Append(runs, 192 + run - 1)
                                           ELSE runs)

\* encodeYuvPlanePFrame: [out, index, hits, runs]; hits lists the cache slots
\* that were written as INDEX opcodes and runs the bytes written as SKIP
\* opcodes, in the order written
RECURSIVE encodeYuvPlanePFrame(_, _, _, _, _, _, _, _)
encodeYuvPlanePFrame(plane, prevPlane, i, skip, index, out, hits, runs) ==
  IF ~(i < Len(plane))
  THEN [out |-> IF skip > 0 THEN out \o SkipOp(skip) ELSE out, index |-> index,
        hits |-> hits, runs |-> runs \o RunBytes(skip)]
  ELSE LET val    == plane[i + 1]
           refVal == At(prevPlane, i)
       IN  IF val = refVal
           THEN With(RunStretch(LAMBDA k : plane[k + 1] = At(prevPlane, k), i, skip,
                                Len(plane)), LAMBDA n :
                IF RunFull(skip + n, i + n = Len(plane))
                THEN encodeYuvPlanePFrame(plane, prevPlane, i + n, 0, index,
                                          out \o <<192 + skip + n - 1>>, hits,
                                          Append(runs, 192 + skip + n - 1))
                ELSE encodeYuvPlanePFrame(plane, prevPlane, i + n, skip + n, index,
                                          out, hits, runs))
           ELSE LET flushed == IF skip > 0 THEN out \o SkipOp(skip) ELSE out
                    d       == val - refVal
                    idx     == yuvHash(val)
                    isHit   == ~(d >= -32 /\ d <= 31) /\ index[idx] = val
                    op      == IF d >= -32 /\ d <= 31 THEN PlaneLiteralOp(val, d)
                               ELSE IF index[idx] = val THEN <<idx>>
                               ELSE <<254, val>>
                IN  encodeYuvPlanePFrame(plane, prevPlane, i + 1, 0,
                                         [index EXCEPT ![idx] = val], flushed \o op,
                                         IF isHit THEN Append(hits, idx) ELSE hits,
                                         runs \o RunBytes(skip))

RECURSIVE Concat(_)
Concat(ss) == IF ss = <<>> THEN <<>> ELSE Head(ss) \o Concat(Tail(ss))

\* the planes a YUV keyframe encodes, in order: Y, U, V and, if present, A
KeyframePlaneList(planes) ==
  <<planes.yPlane, planes.uPlane, planes.vPlane>>
  \o (IF planes.aPlane # <<>> THEN <<planes.aPlane>> ELSE <<>>)

\* the (plane, reference plane) pairs a YUV P-frame encodes
PFramePlaneList(e, planes) ==
  <<<<planes.yPlane, e.prevYPlane>>, <<planes.uPlane, e.prevUPlane>>,
    <<planes.vPlane, e.prevVPlane>>>>
  \o (IF planes.aPlane # <<>> /\ e.prevAPlane # <<>>
      THEN <<<<planes.aPlane, e.prevAPlane>>>> ELSE <<>>)

\* the per-plane results [out, index] of one YUV frame
YuvKeyframePlanes(planes) ==
  LET pl == KeyframePlaneList(planes)
  IN  [k \in 1..Len(pl) |-> encodeYuvPlaneKeyframe(pl[k], 0, 0, 0, EmptyYuvIndex, <<>>, <<>>)]

YuvPFramePlanes(e, planes) ==
  LET pl == PFramePlaneList(e, planes)
  IN  [k \in 1..Len(pl) |->
         encodeYuvPlanePFrame(pl[k][1], pl[k][2], 0, 0, EmptyYuvIndex, <<>>, <<>>,
                              <<>>)]

PlaneData(results) ==
  Concat([k \in 1..Len(results) |-> results[k].out]) \o EndMarker

StorePlanes(e, planes, pixels) ==
  [e EXCEPT !.prevYPlane = planes.yPlane, !.prevUPlane = planes.uPlane,
            !.prevVPlane = planes.vPlane, !.prevAPlane = planes.aPlane,
            !.prevFrame = pixels]

encodeYuvKeyframe(e, pixels, timestamp) ==
  LET frameNumber == e.frameCount
      e1     == [e EXCEPT !.frameCount = @ + 1,
                          !.keyframes = PushKeyframe(e, frameNumber, timestamp),
                          !.buffer = writeSync(@, frameNumber, timestamp)]
      planes == RgbaToYuvPlanes(pixels, e.width, e.height, e.colorspace, e.hasAlpha)
      data   == PlaneData(YuvKeyframePlanes(planes))
  IN  StorePlanes([e1 EXCEPT !.buffer = WriteFrameChunk(e1, QOV_CHUNK_KEYFRAME,
                                           QOV_CHUNK_FLAG_YUV, timestamp, data),
                      !.frameBuffer = FrameBufferAfter(e1, data)],
                  planes, pixels)

encodeYuvPFrame(e, pixels, timestamp) ==
  IF e.prevYPlane = <<>> \/ e.prevUPlane = <<>> \/ e.prevVPlane = <<>>
  THEN encodeYuvKeyframe(e, pixels, timestamp)
  ELSE LET e1     == [e EXCEPT !.frameCount = @ + 1]
           planes == RgbaToYuvPlanes(pixels, e.width, e.height, e.colorspace,
                                     e.hasAlpha)
           data   == PlaneData(YuvPFramePlanes(e, planes))
       IN  StorePlanes([e1 EXCEPT !.buffer = WriteFrameChunk(e1, QOV_CHUNK_PFRAME,
                                                QOV_CHUNK_FLAG_YUV, timestamp, data),
                      !.frameBuffer = FrameBufferAfter(e1, data)],
                       planes, pixels)

encodeKeyframe(e, pixels, timestamp) ==
  IF e.isYuvMode THEN encodeYuvKeyframe(e, pixels, timestamp)
  ELSE LET frameNumber == e.frameCount
           e1 == resetRgbIndex(
                   [e EXCEPT !.frameCount = @ + 1,
                             !.keyframes = PushKeyframe(e, frameNumber, timestamp),
                             !.buffer = writeSync(@, frameNumber, timestamp)])
           r  == encodeRgbKeyframeData(pixels, e.width * e.height, 0, 0,
                                       e1.rgbIndex, e1.prevPixel, <<>>, <<>>)
       IN  [e1 EXCEPT !.rgbIndex = r.rgbIndex, !.prevPixel = r.prevPixel,
                      !.buffer = WriteFrameChunk(e1, QOV_CHUNK_KEYFRAME, 0,
                                                 timestamp, r.out),
                      !.frameBuffer = FrameBufferAfter(e1, r.out),
                      !.prevFrame = pixels]

\* a faulty variant of encodePFrame: every frame is written as a keyframe
EncodePFrameAsKeyframe(e, pixels, timestamp) == encodeKeyframe(e, pixels, timestamp)

encodePFrame(e, pixels, timestamp) ==
  IF e.isYuvMode THEN encodeYuvPFrame(e, pixels, timestamp)
  ELSE IF e.prevFrame = <<>> THEN encodeKeyframe(e, pixels, timestamp)
  ELSE LET e1 == [e EXCEPT !.frameCount = @ + 1]
           r  == encodeRgbPFrameData(pixels, e.prevFrame, e.width * e.height, 0, 0,
                                     e.rgbIndex, <<>>, <<>>)
       IN  [e1 EXCEPT !.rgbIndex = r.rgbIndex,
                      !.buffer = WriteFrameChunk(e1, QOV_CHUNK_PFRAME, 0,
                                                 timestamp, r.out),
                      !.frameBuffer = FrameBufferAfter(e1, r.out),
                      !.prevFrame = pixels]

IndexEntry(kf) ==
  U32Bytes(kf.frameNumber) \o U32Bytes(0) \o U32Bytes(kf.offset)
  \o U32Bytes(kf.timestamp)

\* a faulty variant of writeIndex: the chunk is written whatever the flag and
\* the number of keyframes
WriteIndexAlways(e) ==
  e.buffer
  \o ChunkHeader(QOV_CHUNK_INDEX, 0, 4 + Len(e.keyframes) * 16, 0)
  \o U32Bytes(Len(e.keyframes))
  \o Concat([k \in 1..Len(e.keyframes) |-> IndexEntry(e.keyframes[k])])

writeIndex(e) ==
  IF ~HasFlag(e.flags, QOV_FLAG_HAS_INDEX) \/ Len(e.keyframes) = 0 THEN e.buffer
  ELSE e.buffer
       \o ChunkHeader(QOV_CHUNK_INDEX, 0, 4 + Len(e.keyframes) * 16, 0)
       \o U32Bytes(Len(e.keyframes))
       \o Concat([k \in 1..Len(e.keyframes) |-> IndexEntry(e.keyframes[k])])

writeEnd(buffer) == buffer \o ChunkHeader(QOV_CHUNK_END, 0, 0, 0) \o EndMarker

\* a faulty variant of finish: the header's frame count is left as written
FinishNoCount(e) == [e EXCEPT !.buffer = writeEnd(writeIndex(e))]

\* finish: the encoder afterwards; the returned bytes are its buffer
finish(e) == [e EXCEPT !.buffer = PatchU32(writeEnd(writeIndex(e)), 14, e.frameCount)]

getFrameCount(e) == e.frameCount

(***************************************************************************)
(* Streaming decoder (qov-streaming-decoder.ts): frame data decoding.      *)
(* A frame buffer is a sequence of pixels; x & 0xff is x % 256.            *)
(***************************************************************************)
BlackFrame(pixelCount) == [i \in 1..pixelCount |-> OpaqueBlack]

\* decodeRgbKeyframeFromData's loop: [curr, index, prevPixel]
RECURSIVE DecodeRgbKeyframeLoop(_, _, _, _, _, _, _)
DecodeRgbKeyframeLoop(data, pixelCount, activePos, px, curr, index, prevPixel) ==
  IF ~(px < pixelCount /\ activePos < Len(data) - 8)
  THEN [curr |-> curr, index |-> index, prevPixel |-> prevPixel]
  ELSE LET b1 == At(data, activePos)
           b2 == At(data, activePos + 1)
       IN  IF b1 >= 192 /\ b1 < 254
           THEN LET run == Min((b1 % 64) + 1, pixelCount - px)
                IN  DecodeRgbKeyframeLoop(data, pixelCount, activePos + 1, px + run,
                      [i \in 1..Len(curr) |->
                         IF i > px /\ i <= px + run THEN prevPixel ELSE curr[i]],
                      index, prevPixel)
           ELSE LET c == IF b1 = 254
                         THEN <<b2, At(data, activePos + 2), At(data, activePos + 3),
                                prevPixel[4]>>
                         ELSE IF b1 = 255
                         THEN <<b2, At(data, activePos + 2), At(data, activePos + 3),
                                At(data, activePos + 4)>>
                         ELSE IF b1 < 64 THEN index[b1]
                         ELSE IF b1 < 128
                         THEN <<(prevPixel[1] + ((b1 \div 16) % 4) - 2) % 256,
                                (prevPixel[2] + ((b1 \div 4) % 4) - 2) % 256,
                                (prevPixel[3] + (b1 % 4) - 2) % 256, prevPixel[4]>>
                         ELSE LET dg == (b1 % 64) - 32
                              IN  <<(prevPixel[1] + dg + (b2 \div 16) - 8) % 256,
                                    (prevPixel[2] + dg) % 256,
                                    (prevPixel[3] + dg + (b2 % 16) - 8) % 256,
                                    prevPixel[4]>>
                    used == IF b1 = 254 THEN 4 ELSE IF b1 = 255 THEN 5
                            ELSE IF b1 >= 128 /\ b1 < 192 THEN 2 ELSE 1
                IN  DecodeRgbKeyframeLoop(data, pixelCount, activePos + used, px + 1,
                      [curr EXCEPT ![px + 1] = c],
                      [index EXCEPT ![colorHash(c)] = c], c)

\* decodeRgbPFrameFromData's loop: [curr, index]
RECURSIVE DecodeRgbPFrameLoop(_, _, _, _, _, _)
DecodeRgbPFrameLoop(data, pixelCount, activePos, px, curr, index) ==
  IF ~(px < pixelCount /\ activePos < Len(data) - 8)
  THEN [curr |-> curr, index |-> index]
  ELSE LET b1  == At(data, activePos)
           b2  == At(data, activePos + 1)
           old == curr[px + 1]
       IN  IF b1 = 0
           THEN DecodeRgbPFrameLoop(data, pixelCount, activePos + 3,
                                    px + ReadU16(data, activePos + 1), curr, index)
           ELSE IF b1 >= 192 /\ b1 < 254
           THEN DecodeRgbPFrameLoop(data, pixelCount, activePos + 1,
                                    px + (b1 % 64) + 1, curr, index)
           ELSE IF b1 < 64
           THEN DecodeRgbPFrameLoop(data, pixelCount, activePos + 1, px + 1,
                                    [curr EXCEPT ![px + 1] = index[b1]], index)
           ELSE LET c == IF b1 = 254
                         THEN <<b2, At(data, activePos + 2), At(data, activePos + 3),
                                old[4]>>
                         ELSE IF b1 = 255
                         THEN <<b2, At(data, activePos + 2), At(data, activePos + 3),
                                At(data, activePos + 4)>>
                         ELSE IF b1 < 128
                         THEN <<(old[1] + ((b1 \div 16) % 4) - 2) % 256,
                                (old[2] + ((b1 \div 4) % 4) - 2) % 256,
                                (old[3] + (b1 % 4) - 2) % 256, old[4]>>
                         ELSE LET dg == (b1 % 64) - 32
                              IN  <<(old[1] + dg + (b2 \div 16) - 8) % 256,
                                    (old[2] + dg) % 256,
                                    (old[3] + dg + (b2 % 16) - 8) % 256, old[4]>>
                    used == IF b1 = 254 THEN 4 ELSE IF b1 = 255 THEN 5
                            ELSE IF b1 >= 128 THEN 2 ELSE 1
                IN  DecodeRgbPFrameLoop(data, pixelCount, activePos + used, px + 1,
                      [curr EXCEPT ![px + 1] = c],
                      [index EXCEPT ![colorHash(c)] = c])

\* decodeYuvPlane: [plane, activePos, yuvIndex]
RECURSIVE decodeYuvPlane(_, _, _, _, _, _, _, _)
decodeYuvPlane(data, plane, size, isPFrame, activePos, px, prevVal, yuvIndex) ==
  IF ~(px < size /\ activePos < Len(data) - 8)
  THEN [plane |-> plane, activePos |-> activePos, yuvIndex |-> yuvIndex]
  ELSE LET b1 == At(data, activePos)
       IN  IF b1 = 0 /\ isPFrame
           THEN decodeYuvPlane(data, plane, size, isPFrame, activePos + 3,
                               px + ReadU16(data, activePos + 1), prevVal, yuvIndex)
           ELSE IF b1 >= 192 /\ b1 < 254
           THEN LET count == (b1 % 64) + 1
                IN  IF isPFrame
                    THEN decodeYuvPlane(data, plane, size, isPFrame, activePos + 1,
                                        px + count, prevVal, yuvIndex)
                    ELSE decodeYuvPlane(data, 
                           [i \in 1..Len(plane) |->
                              IF i > px /\ i <= Min(px + count, size) THEN prevVal
                              ELSE plane[i]],
                           size, isPFrame, activePos + 1, Min(px + count, size),
                           prevVal, yuvIndex)
           ELSE IF b1 < 64
           THEN decodeYuvPlane(data, ArrSet(plane, px, yuvIndex[b1]), size, isPFrame,
                               activePos + 1, px + 1, yuvIndex[b1], yuvIndex)
           ELSE IF b1 < 192
           THEN LET d == IF b1 < 128 THEN (b1 % 16) - 8 ELSE (b1 % 64) - 32
                    v == ((IF isPFrame THEN At(plane, px) ELSE prevVal) + d) % 256
                IN  decodeYuvPlane(data, ArrSet(plane, px, v), size, isPFrame,
                                   activePos + 1, px + 1, v,
                                   [yuvIndex EXCEPT ![yuvHash(v)] = v])
           ELSE IF b1 = 254
           THEN LET v == At(data, activePos + 1)
                IN  decodeYuvPlane(data, ArrSet(plane, px, v), size, isPFrame,
                                   activePos + 2, px + 1, v,
                                   [yuvIndex EXCEPT ![yuvHash(v)] = v])
           ELSE decodeYuvPlane(data, plane, size, isPFrame, activePos + 1, px,
                               prevVal, yuvIndex)

(***************************************************************************)
(* Streaming decoder: the decoder object.  header is meaningful once       *)
(* headerParsed holds (the source's header !== null); planeIndex records   *)
(* the yuvIndex each decodeYuvPlane call of the last frame ended with and   *)
(* planeRest the bytes of that frame's data from the final activePos on.   *)
(***************************************************************************)
NoHeader == [version |-> 0, flags |-> 0, width |-> 0, height |-> 0,
             frameRateNum |-> 0, frameRateDen |-> 0,
             totalFrames |-> 0, colorspace |-> 0]

NewDecoder ==
  [headerParsed |-> FALSE, header |-> NoHeader, use32BitChunkSize |-> FALSE,
   chunks |-> <<>>, keyframeIndices |-> <<>>, totalFrames |-> 0,
   indexBuilt |-> FALSE,
   index |-> EmptyRgbIndex, prevPixel |-> OpaqueBlack,
   prevFrame |-> <<>>, currFrame |-> <<>>, lastDecodedFrameIndex |-> -1,
   decoding |-> FALSE, isYuvMode |-> FALSE, hasYuvAlpha |-> FALSE,
   prevYPlane |-> <<>>, prevUPlane |-> <<>>, prevVPlane |-> <<>>,
   prevAPlane |-> <<>>, currYPlane |-> <<>>, currUPlane |-> <<>>,
   currVPlane |-> <<>>, currAPlane |-> <<>>, planeIndex |-> <<>>,
   planeRest |-> <<>>]

\* a faulty variant of resetIndex: the cache and the previous pixel are kept
KeepIndex(d) == d

resetIndex(d) == [d EXCEPT !.index = EmptyRgbIndex, !.prevPixel = OpaqueBlack]

\* the chroma plane size of a colorspace
UvSize(width, height, colorspace) ==
  IF IsYuv420(colorspace) THEN CeilDiv(width, 2) * CeilDiv(height, 2)
  ELSE IF colorspace = QOV_COLORSPACE_YUV422 THEN CeilDiv(width, 2) * height
  ELSE width * height

initYuvPlanes(d) ==
  LET ySize  == d.header.width * d.header.height
      uvSize == UvSize(d.header.width, d.header.height, d.header.colorspace)
      aSize  == IF d.hasYuvAlpha THEN ySize ELSE 0
  IN  [d EXCEPT !.prevYPlane = Repeat(0, ySize), !.currYPlane = Repeat(0, ySize),
                !.prevUPlane = Repeat(0, uvSize), !.currUPlane = Repeat(0, uvSize),
                !.prevVPlane = Repeat(0, uvSize), !.currVPlane = Repeat(0, uvSize),
                !.prevAPlane = Repeat(0, aSize), !.currAPlane = Repeat(0, aSize)]

\* parseHeader on the 24 bytes read from the source: [ok, dec]
parseHeader(d, headerData) ==
  IF d.headerParsed THEN [ok |-> TRUE, dec |-> d]
  ELSE IF SubArray(headerData, 0, 4) # <<113, 111, 118, 102>>
          \/ At(headerData, 4) \notin {1, 2}
  THEN [ok |-> FALSE, dec |-> d]
  ELSE With([version |-> At(headerData, 4), flags |-> At(headerData, 5),
             width |-> ReadU16(headerData, 6), height |-> ReadU16(headerData, 8),
             frameRateNum |-> ReadU16(headerData, 10),
             frameRateDen |-> ReadU16(headerData, 12),
             totalFrames |-> ReadU32(headerData, 14),
             colorspace |-> At(headerData, 22)], LAMBDA h :
       With([d EXCEPT !.header = h, !.use32BitChunkSize = h.version >= 2,
               !.isYuvMode = h.colorspace >= QOV_COLORSPACE_YUV420
                             /\ h.colorspace <= QOV_COLORSPACE_YUVA420,
               !.hasYuvAlpha = h.colorspace = QOV_COLORSPACE_YUVA420,
               !.prevFrame = BlackFrame(h.width * h.height),
               !.currFrame = BlackFrame(h.width * h.height),
               !.headerParsed = TRUE], LAMBDA d1 :
       [ok |-> TRUE, dec |-> IF d1.isYuvMode THEN initYuvPlanes(d1) ELSE d1]))

HeaderSize(d) == IF d.use32BitChunkSize THEN 10 ELSE 8

\* the body of buildIndex's loop for an available chunk header: the decoder
\* with the chunk appended; the loop goes on at NextOffset unless the chunk
\* is the END chunk
IndexChunk(d, headerData, offset) ==
  LET chunkType == At(headerData, 0)
      chunkSize == IF d.use32BitChunkSize THEN ReadU32(headerData, 2)
                   ELSE ReadU16(headerData, 2)
      timestamp == IF d.use32BitChunkSize THEN ReadU32(headerData, 6)
                   ELSE ReadU32(headerData, 4)
      isFrame   == chunkType \in {QOV_CHUNK_KEYFRAME, QOV_CHUNK_PFRAME, 3}
  IN  [d EXCEPT
         !.keyframeIndices = IF chunkType = QOV_CHUNK_KEYFRAME
                             THEN Append(@, d.totalFrames) ELSE @,
         !.totalFrames = IF isFrame THEN @ + 1 ELSE @,
         !.chunks = Append(@, [offset |-> offset, type |-> chunkType,
                               flags |-> At(headerData, 1),
                               size |-> chunkSize + HeaderSize(d),
                               timestamp |-> timestamp,
                               frameIndex |-> IF isFrame THEN d.totalFrames ELSE -1])]

NextOffset(d, offset) == offset + d.chunks[Len(d.chunks)].size

LastChunkIsEnd(d) == d.chunks[Len(d.chunks)].type = QOV_CHUNK_END

\* "this.chunks = []; this.keyframeIndices = []; this.totalFrames = 0"
StartIndex(d) == [d EXCEPT !.chunks = <<>>, !.keyframeIndices = <<>>, !.totalFrames = 0]

\* a faulty variant of findPrecedingKeyframe: replay starts at the target
\* frame itself, whether or not it is a keyframe
NoPrecedingKeyframe(d, frameIndex) == frameIndex

findPrecedingKeyframe(d, frameIndex) ==
  LET before == {k \in 1..Len(d.keyframeIndices) :
                   \A j \in 1..k : d.keyframeIndices[j] <= frameIndex}
  IN  IF before = {} THEN 0
      ELSE d.keyframeIndices[CHOOSE k \in before : \A j \in before : j <= k]

getFrameTimestamp(d, frameIndex) ==
  LET hits == {k \in 1..Len(d.chunks) : d.chunks[k].frameIndex = frameIndex}
  IN  IF hits = {} THEN 0
      ELSE d.chunks[CHOOSE k \in hits : \A j \in hits : k <= j].timestamp

decodeRgbKeyframeFromData(d, data) ==
  LET d0 == resetIndex(d)
      r  == DecodeRgbKeyframeLoop(data, d.header.width * d.header.height, 0, 0,
                                  d.currFrame, d0.index, d0.prevPixel)
  IN  [d EXCEPT !.index = r.index, !.prevPixel = r.prevPixel,
                !.prevFrame = r.curr, !.currFrame = d.prevFrame]

decodeRgbPFrameFromData(d, data, hasMotion) ==
  LET r == DecodeRgbPFrameLoop(data, d.header.width * d.header.height, 0, 0,
                               IF hasMotion THEN d.currFrame ELSE d.prevFrame,
                               d.index)
  IN  [d EXCEPT !.index = r.index, !.prevFrame = r.curr, !.currFrame = d.prevFrame]

\* the plane decoding, conversion and buffer swap shared by
\* decodeYuvKeyframeFromData and decodeYuvPFrameFromData; y0, u0, v0, a0 are
\* the current planes the decoding starts from
DecodeYuvPlanes(d, data, isPFrame, y0, u0, v0, a0, withAlpha) ==
  LET ySize  == d.header.width * d.header.height
      uvSize == UvSize(d.header.width, d.header.height, d.header.colorspace)
      y == decodeYuvPlane(data, y0, ySize, isPFrame, 0, 0, 0, EmptyYuvIndex)
      u == decodeYuvPlane(data, u0, uvSize, isPFrame, y.activePos, 0, 0, EmptyYuvIndex)
      v == decodeYuvPlane(data, v0, uvSize, isPFrame, u.activePos, 0, 0, EmptyYuvIndex)
      a == IF withAlpha
           THEN decodeYuvPlane(data, a0, ySize, isPFrame, v.activePos, 0, 0,
                               EmptyYuvIndex)
           ELSE [plane |-> d.currAPlane, activePos |-> v.activePos,
                 yuvIndex |-> EmptyYuvIndex]
      pixels == YuvPlanesToRgba(y.plane, u.plane, v.plane,
                                IF d.hasYuvAlpha THEN a.plane ELSE <<>>,
                                d.header.width, d.header.height, d.header.colorspace)
  IN  [d EXCEPT !.prevYPlane = y.plane, !.currYPlane = d.prevYPlane,
                !.prevUPlane = u.plane, !.currUPlane = d.prevUPlane,
                !.prevVPlane = v.plane, !.currVPlane = d.prevVPlane,
                !.prevAPlane = IF d.hasYuvAlpha THEN a.plane ELSE @,
                !.currAPlane = IF d.hasYuvAlpha THEN d.prevAPlane ELSE @,
                !.prevFrame = pixels, !.currFrame = d.prevFrame,
                !.planeIndex = <<y.yuvIndex, u.yuvIndex, v.yuvIndex>>
                               \o (IF withAlpha THEN <<a.yuvIndex>> ELSE <<>>),
                !.planeRest = SubArray(data, a.activePos, Len(data))]

decodeYuvKeyframeFromData(d, data) ==
  DecodeYuvPlanes(d, data, FALSE, d.currYPlane, d.currUPlane, d.currVPlane,
                  d.currAPlane, d.hasYuvAlpha /\ d.currAPlane # <<>>)

decodeYuvPFrameFromData(d, data) ==
  DecodeYuvPlanes(d, data, TRUE, d.prevYPlane, d.prevUPlane, d.prevVPlane,
                  d.prevAPlane,
                  d.hasYuvAlpha /\ d.currAPlane # <<>> /\ d.prevAPlane # <<>>)

\* decodeNextFrame on the chunk's payload as read from the source: [ok, dec]
(***************************************************************************)
(* Data sources: FileDataSource (the whole file in memory) and             *)
(* UrlDataSource (progressive download).  data is what the server sends;   *)
(* buffer tells whether this.buffer is allocated.                          *)
(***************************************************************************)
\* getSize() === null
NoSize == -1

FileDataSource(data) ==
  [kind |-> "file", data |-> data, loadedSize |-> Len(data),
   totalSize |-> Len(data), buffer |-> TRUE, loading |-> FALSE]

\* UrlDataSource after init(): the HEAD request gave the content length or
\* not, and the download has been started
UrlDataSource(data, sizeKnown) ==
  [kind |-> "url", data |-> data, loadedSize |-> 0,
   totalSize |-> IF sizeKnown THEN Len(data) ELSE NoSize,
   buffer |-> sizeKnown, loading |-> TRUE]

getSize(s) == s.totalSize

isAvailable(s, offset, length) ==
  IF s.kind = "file" THEN offset + length <= Len(s.data)
  ELSE s.loadedSize >= offset + length

\* read's wait loop is over (a FileDataSource never waits)
ReadReady(s, offset, length) ==
  s.kind = "file" \/ ~(s.loadedSize < offset + length /\ s.loading)

\* read throws "Cannot read N bytes at offset M" (a FileDataSource never does)
ReadThrows(s, offset, length) ==
  s.kind = "url" /\ (~s.buffer \/ offset + length > Len(s.data))

\* what read returns: subarray(offset, offset + length)
ReadData(s, offset, length) == SubArray(s.data, offset, offset + length)

\* FileDataSource.read
FileRead(data, offset, length) == ReadData(FileDataSource(data), offset, length)

\* one chunk of the download has arrived: n more bytes are loaded
DownloadChunk(s, n) == [s EXCEPT !.loadedSize = Min(@ + n, Len(s.data))]

\* the download's reader is done: the buffer is assembled if it was not
\* allocated in advance
DownloadDone(s) ==
  [s EXCEPT !.totalSize = Len(s.data), !.buffer = TRUE,
            !.loadedSize = Len(s.data), !.loading = FALSE]

decodeNextFrame(d, frameIndex, chunkData) ==
  LET hits  == {k \in 1..Len(d.chunks) : d.chunks[k].frameIndex = frameIndex}
      chunk == d.chunks[CHOOSE k \in hits : \A j \in hits : k <= j]
      isCompressed == HasFlag(chunk.flags, QOV_CHUNK_FLAG_COMPRESSED)
      isYuv == HasFlag(chunk.flags, QOV_CHUNK_FLAG_YUV) \/ d.isYuvMode
      d1    == With(IF isCompressed
                    THEN lz4Decompress(SubArray(chunkData, 4, Len(chunkData)),
                                       ReadU32(chunkData, 0))
                    ELSE chunkData, LAMBDA data :
               IF chunk.type = QOV_CHUNK_KEYFRAME
               THEN IF isYuv THEN decodeYuvKeyframeFromData(d, data)
                    ELSE decodeRgbKeyframeFromData(d, data)
               ELSE IF chunk.type = QOV_CHUNK_PFRAME
               THEN IF isYuv THEN decodeYuvPFrameFromData(d, data)
                    ELSE decodeRgbPFrameFromData(d, data, HasFlag(chunk.flags, 2))
               ELSE d)
  IN  IF hits = {} THEN [ok |-> FALSE, dec |-> d]
      ELSE [ok |-> TRUE, dec |-> [d1 EXCEPT !.lastDecodedFrameIndex = frameIndex]]

\* the payload decodeNextFrame reads for a frame from a file data source
FramePayload(d, data, frameIndex) ==
  LET hits  == {k \in 1..Len(d.chunks) : d.chunks[k].frameIndex = frameIndex}
      chunk == d.chunks[CHOOSE k \in hits : \A j \in hits : k <= j]
  IN  IF hits = {} THEN <<>>
      ELSE FileRead(data, chunk.offset + HeaderSize(d), chunk.size - HeaderSize(d))

\* buildIndex's loop from offset on, up to its next wait: [pc, dec, offset].
\* pc is "done" (the loop ended, indexBuilt is set), "scan" (the chunk header
\* at offset is not available: the loop sleeps 100 ms and tries again) or
\* "failed" (source.read threw).  fileSize is the getSize() taken before the
\* loop, NoSize for null.
RECURSIVE ScanLoop(_, _, _, _)
ScanLoop(d, s, offset, fileSize) ==
  IF ~(fileSize = NoSize \/ offset < fileSize)
  THEN [pc |-> "done", dec |-> [d EXCEPT !.indexBuilt = TRUE], offset |-> offset]
  ELSE IF ~isAvailable(s, offset, HeaderSize(d))
  THEN [pc |-> "scan", dec |-> d, offset |-> offset]
  ELSE IF ReadThrows(s, offset, HeaderSize(d))
  THEN [pc |-> "failed", dec |-> d, offset |-> offset]
  ELSE With(IndexChunk(d, ReadData(s, offset, HeaderSize(d)), offset), LAMBDA d1 :
            IF LastChunkIsEnd(d1)
            THEN [pc |-> "done", dec |-> [d1 EXCEPT !.indexBuilt = TRUE],
                  offset |-> offset]
            ELSE With(NextOffset(d1, offset), LAMBDA next :
                      ScanLoop(d1, s, next, fileSize)))

\* buildIndex from the point where source.read(0, 24) has stopped waiting,
\* up to the loop's next wait: [pc, dec, offset]
BuildIndexFromHeader(d, s) ==
  With(parseHeader(d, ReadData(s, 0, 24)), LAMBDA h :
       IF d.indexBuilt THEN [pc |-> "done", dec |-> d, offset |-> 24]
       ELSE IF ~d.headerParsed /\ (ReadThrows(s, 0, 24) \/ ~h.ok)
       THEN [pc |-> "failed", dec |-> d, offset |-> 24]
       ELSE With(StartIndex(h.dec), LAMBDA d0 : ScanLoop(d0, s, 24, getSize(s))))

\* buildIndex on a file data source whose header parses: [done, dec]; done =
\* FALSE is the loop polling for ever for a chunk header that is not there
buildIndex(d, data) ==
  With(BuildIndexFromHeader(d, FileDataSource(data)), LAMBDA r :
       [done |-> r.pc = "done", dec |-> r.dec])

\* what a decodeFrame call gives its caller
NullResult == [kind |-> "null", pixels |-> <<>>, timestamp |-> 0,
               isKeyframe |-> FALSE, frameNumber |-> -1]

ErrorResult == [NullResult EXCEPT !.kind = "error"]

PendingResult == [NullResult EXCEPT !.kind = "pending"]

FrameResult(d, frameIndex) ==
  [kind |-> "frame", pixels |-> d.prevFrame,
   timestamp |-> getFrameTimestamp(d, frameIndex),
   isKeyframe |-> \E k \in 1..Len(d.keyframeIndices) : d.keyframeIndices[k] = frameIndex,
   frameNumber |-> frameIndex]

\* "for (let i = keyframeIdx; i <= frameIndex; i++) await decodeNextFrame(i)"
RECURSIVE DecodeRange(_, _, _, _)
DecodeRange(d, data, i, frameIndex) ==
  IF i > frameIndex THEN [ok |-> TRUE, dec |-> d]
  ELSE With(decodeNextFrame(d, i, FramePayload(d, data, i)), LAMBDA r :
            IF r.ok THEN DecodeRange(r.dec, data, i + 1, frameIndex) ELSE r)

\* the try block of decodeFrame once header and index are there: [ok, dec]
SeekAndDecode(d, data, frameIndex) ==
  IF frameIndex <= d.lastDecodedFrameIndex - 1
     \/ frameIndex > d.lastDecodedFrameIndex + 1
  THEN LET keyframeIdx == findPrecedingKeyframe(d, frameIndex)
       IN  DecodeRange([resetIndex(d) EXCEPT !.lastDecodedFrameIndex = keyframeIdx - 1],
                       data, keyframeIdx, frameIndex)
  ELSE IF frameIndex = d.lastDecodedFrameIndex + 1
  THEN decodeNextFrame(d, frameIndex, FramePayload(d, data, frameIndex))
  ELSE [ok |-> TRUE, dec |-> d]

\* a faulty variant of decodeFrame: the decoder state is reset for a seek
\* before the frame index is tested against the range
decodeFrameResetFirst(d, data, frameIndex) ==
  With(parseHeader(d, FileRead(data, 0, 24)), LAMBDA h :
    IF ~h.ok THEN [dec |-> d, ret |-> ErrorResult]
    ELSE With(buildIndex(h.dec, data), LAMBDA b :
      IF ~b.done
      THEN [dec |-> [b.dec EXCEPT !.decoding = TRUE], ret |-> PendingResult]
      ELSE IF frameIndex < 0 \/ frameIndex >= b.dec.totalFrames
      THEN [dec |-> [resetIndex(b.dec) EXCEPT !.lastDecodedFrameIndex = -1],
            ret |-> NullResult]
      ELSE With(SeekAndDecode(b.dec, data, frameIndex), LAMBDA r :
        IF ~r.ok THEN [dec |-> r.dec, ret |-> ErrorResult]
        ELSE [dec |-> r.dec, ret |-> FrameResult(r.dec, frameIndex)])))

\* decodeFrame on a file data source, from taking the guard to releasing
\* it: [dec, ret].  Every await in it resolves without a timer, except the
\* index scan's poll, which leaves the call pending with the guard held.
decodeFrame(d, data, frameIndex) ==
  With(parseHeader(d, FileRead(data, 0, 24)), LAMBDA h :
    IF ~h.ok THEN [dec |-> d, ret |-> ErrorResult]
    ELSE With(buildIndex(h.dec, data), LAMBDA b :
      IF ~b.done
      THEN [dec |-> [b.dec EXCEPT !.decoding = TRUE], ret |-> PendingResult]
      ELSE IF frameIndex < 0 \/ frameIndex >= b.dec.totalFrames
      THEN [dec |-> b.dec, ret |-> NullResult]
      ELSE With(SeekAndDecode(b.dec, data, frameIndex), LAMBDA r :
        IF ~r.ok THEN [dec |-> r.dec, ret |-> ErrorResult]
        ELSE [dec |-> r.dec, ret |-> FrameResult(r.dec, frameIndex)])))

(***************************************************************************)
(* The frames an application hands to the encoder.                         *)
(***************************************************************************)
\* colours one DIFF step, one LUMA step and one RGB step away from black,
\* the transparent zero pixel and a half-transparent colour
Palette == [K |-> OpaqueBlack, D |-> <<1, 1, 1, 255>>, L |-> <<8, 10, 7, 255>>,
            R |-> <<200, 90, 40, 255>>, Z |-> ZeroPixel, A |-> <<200, 90, 40, 128>>]

Cycle(colours, width) == [i \in 1..width |-> colours[((i - 1) % Len(colours)) + 1]]

FramePool(width) ==
  <<Cycle(<<Palette.K, Palette.D, Palette.L>>, width),
    Cycle(<<Palette.D, Palette.L, Palette.K>>, width),
    Cycle(<<Palette.R, Palette.Z>>, width),
    Cycle(<<Palette.A>>, width)>>

\* presentation time of frame n in microseconds at 30 frames per second
FrameTimestamp(n) == n * 33333

\* the encoder configurations <<colorspace, compressionEnabled>>: every
\* colorspace the encoder knows, with compression on and off in both modes
Configs == {<<QOV_COLORSPACE_SRGB, FALSE>>, <<QOV_COLORSPACE_SRGB, TRUE>>,
            <<QOV_COLORSPACE_SRGBA, TRUE>>, <<QOV_COLORSPACE_YUV420, FALSE>>,
            <<QOV_COLORSPACE_YUV422, TRUE>>, <<QOV_COLORSPACE_YUV444, FALSE>>,
            <<QOV_COLORSPACE_YUVA420, TRUE>>}

(***************************************************************************)
(* History of the encoder session: what each encode call computed.         *)
(***************************************************************************)
\* the record of one encode call: e is the encoder before, e2 after
EncodeRecord(e, e2, pixels, asKeyframe) ==
  LET planes == RgbaToYuvPlanes(pixels, e.width, e.height, e.colorspace, e.hasAlpha)
      isKey  == asKeyframe \/ (IF e.isYuvMode THEN e.prevYPlane = <<>>
                               ELSE e.prevFrame = <<>>)
      res    == IF isKey THEN YuvKeyframePlanes(planes) ELSE YuvPFramePlanes(e, planes)
  IN  [isKeyframe |-> isKey, rgbIndex |-> e2.rgbIndex, prevPixel |-> e2.prevPixel,
       planes |-> IF e.isYuvMode THEN KeyframePlaneList(planes) ELSE <<>>,
       planeIndex |-> IF e.isYuvMode THEN [k \in 1..Len(res) |-> res[k].index]
                      ELSE <<>>,
       indexOps |-> IF e.isYuvMode /\ ~isKey
                    THEN Concat([k \in 1..Len(res) |-> res[k].hits]) ELSE <<>>]

\* where the chunks of one encode call start: a keyframe is a SYNC chunk and
\* a KEYFRAME chunk, a P-frame one PFRAME chunk
FrameLayout(e, isKey) ==
  IF isKey
  THEN <<[type |-> QOV_CHUNK_SYNC, offset |-> Len(e.buffer)],
         [type |-> QOV_CHUNK_KEYFRAME, offset |-> Len(writeSync(e.buffer, 0, 0))]>>
  ELSE <<[type |-> QOV_CHUNK_PFRAME, offset |-> Len(e.buffer)]>>

\* where the chunks finish writes start
FinishLayout(e) ==
  (IF Len(writeIndex(e)) > Len(e.buffer)
   THEN <<[type |-> QOV_CHUNK_INDEX, offset |-> Len(e.buffer)]>> ELSE <<>>)
  \o <<[type |-> QOV_CHUNK_END, offset |-> Len(writeIndex(e))]>>

(***************************************************************************)
(* Specification Spec: one encoder session (writeHeader, encodeKeyframe /  *)
(* encodePFrame, finish), then one streaming decoder over the finished     *)
(* file through a FileDataSource, asked for frames in any order.           *)
(***************************************************************************)
\* no byte block is being compressed on its own
NoBlock == [pc |-> "none", input |-> <<>>, block |-> <<>>, output |-> <<>>]

\* buildIndex has not been called on its own: where it is (pc), the loop's
\* offset and fileSize, and whether the input is a whole finished file
IdleIndex == [pc |-> "idle", offset |-> 0, fileSize |-> NoSize, whole |-> FALSE]

Init ==
  /\ enc \in {NewEncoder(Width, 1, QOV_FLAG_HAS_INDEX, c[1], c[2]) : c \in Configs}
  /\ sent = <<>>
  /\ trace = <<>>
  /\ layout = <<>>
  /\ file = <<>>
  /\ dec = NewDecoder
  /\ ret = [frameIndex |-> -1, result |-> NullResult]
  /\ src = FileDataSource(<<>>)
  /\ bi = IdleIndex
  /\ calls = <<>>
  /\ timers = <<>>
  /\ clock = 0
  /\ log = <<>>
  /\ lz = NoBlock

WriteHeader ==
  /\ file = <<>>
  /\ enc.buffer = <<>>
  /\ enc' = writeHeader(enc)
  /\ UNCHANGED <<sent, trace, layout, file, dec, ret, src, bi, calls, timers, clock, log, lz>>

EncodeKeyframe ==
  /\ file = <<>>
  /\ enc.buffer # <<>>
  /\ enc.frameCount < MaxFrames
  /\ \E k \in 1..Len(FramePool(Width)) :
       LET pixels == FramePool(Width)[k]
       IN  /\ enc' = encodeKeyframe(enc, pixels, FrameTimestamp(enc.frameCount))
           /\ sent' = Append(sent, pixels)
           /\ trace' = Append(trace, EncodeRecord(enc, enc', pixels, TRUE))
           /\ layout' = layout \o FrameLayout(enc, trace'[Len(trace')].isKeyframe)
  /\ UNCHANGED <<file, dec, ret, src, bi, calls, timers, clock, log, lz>>

EncodePFrame ==
  /\ file = <<>>
  /\ enc.buffer # <<>>
  /\ enc.frameCount < MaxFrames
  /\ \E k \in 1..Len(FramePool(Width)) :
       LET pixels == FramePool(Width)[k]
       IN  /\ enc' = encodePFrame(enc, pixels, FrameTimestamp(enc.frameCount))
           /\ sent' = Append(sent, pixels)
           /\ trace' = Append(trace, EncodeRecord(enc, enc', pixels, FALSE))
           /\ layout' = layout \o FrameLayout(enc, trace'[Len(trace')].isKeyframe)
  /\ UNCHANGED <<file, dec, ret, src, bi, calls, timers, clock, log, lz>>

Finish ==
  /\ file = <<>>
  /\ enc.buffer # <<>>
  /\ enc' = finish(enc)
  /\ file' = enc'.buffer
  /\ src' = FileDataSource(file')
  /\ layout' = layout \o FinishLayout(enc)
  /\ UNCHANGED <<sent, trace, dec, ret, bi, calls, timers, clock, log, lz>>

DecodeFrame ==
  /\ file # <<>>
  /\ ~dec.decoding
  /\ \E frameIndex \in -1..MaxFrames :
       \E r \in {decodeFrame(dec, file, frameIndex)} :
           /\ dec' = r.dec
           /\ ret' = [frameIndex |-> frameIndex, result |-> r.ret]
  /\ UNCHANGED <<enc, sent, trace, layout, file, src, bi, calls, timers, clock, log, lz>>

Next == WriteHeader \/ EncodeKeyframe \/ EncodePFrame \/ Finish \/ DecodeFrame

Spec == Init /\ [][Next]_vars

(***************************************************************************)
(* Properties of Spec.                                                     *)
(***************************************************************************)
\* a fresh decoder over data with header parsed and index built
FreshDecoder(data) ==
  buildIndex(parseHeader(NewDecoder, FileRead(data, 0, 24)).dec, data).dec

\* the decoder after linearly decoding frames 0..i of data
LinearDecode(data, i) == DecodeRange(FreshDecoder(data), data, 0, i).dec

\* a decodeFrame call has returned frame ret.frameIndex
Returned == ret.result.kind = "frame"

\* chunk k of the index is stored compressed
IsCompressed(k) == HasFlag(dec.chunks[k].flags, QOV_CHUNK_FLAG_COMPRESSED)

\* C1: RGB round trip.  In colorspace sRGB or sRGBA, with compression on or
\* off, the decoder finds exactly as many frames in the finished file as
\* were encoded, every one of them can be decoded, and decoded frame i
\* equals input frame i pixel for pixel.
RgbRoundTrip ==
  (~enc.isYuvMode /\ dec.indexBuilt) =>
     /\ dec.totalFrames = Len(sent)
     /\ dec.header.totalFrames = Len(sent)
     /\ ret.frameIndex \in 0..(Len(sent) - 1) =>
          /\ Returned
          /\ ret.result.pixels = sent[ret.frameIndex + 1]

\* a compressed P-frame that follows a keyframe and a P-frame has been
\* decoded and returned
RgbRoundTripWitness ==
  /\ ~enc.isYuvMode /\ enc.compressionEnabled /\ Returned
  /\ ret.frameIndex = 2
  /\ ~trace[2].isKeyframe /\ ~trace[3].isKeyframe
  /\ \E k \in 1..Len(dec.chunks) : dec.chunks[k].frameIndex = 2 /\ IsCompressed(k)
  /\ ret.result.pixels = sent[3]
  /\ sent[3] # sent[2] /\ sent[2] # sent[1]

\* C2: seek equivalence.  Whatever decodeFrame calls came before (forward
\* jumps, backward jumps, repeats), the pixels decodeFrame(i) returns are
\* the pixels a fresh decoder returns for frame i after decoding 0..i in
\* order.
SeekEquivalence ==
  Returned => ret.result.pixels = LinearDecode(file, ret.frameIndex).prevFrame

\* frame 1, a P-frame that differs from the frames around it, is returned
\* by a decoder that had decoded up to frame 2 before: a backward seek that
\* replays from the keyframe 0
SeekEquivalenceWitness ==
  /\ Returned /\ ret.frameIndex = 1 /\ dec.lastDecodedFrameIndex = 1
  /\ Len(sent) = 3 /\ ~trace[2].isKeyframe
  /\ sent[1] # sent[2] /\ sent[2] # sent[3]
  /\ IF dec.isYuvMode THEN dec.currYPlane = LinearDecode(file, 2).prevYPlane
     ELSE dec.currFrame = sent[3]

\* the decode state the seek invariant speaks of
DecodeState(d) ==
  [index |-> d.index, prevPixel |-> d.prevPixel, prevFrame |-> d.prevFrame,
   prevYPlane |-> d.prevYPlane, prevUPlane |-> d.prevUPlane,
   prevVPlane |-> d.prevVPlane, prevAPlane |-> d.prevAPlane,
   lastDecodedFrameIndex |-> d.lastDecodedFrameIndex]

\* C10: seek invariant on state.  After decodeFrame(i) has returned a
\* frame, the colour cache, the previous pixel, the previous-frame buffer,
\* the reference planes and the last-decoded index are those of a decoder
\* that decoded frames 0..i linearly.
SeekStateInvariant ==
  Returned => DecodeState(dec) = DecodeState(LinearDecode(file, ret.frameIndex))

\* the keyframe 0 is returned after a backward seek from a P-frame that had
\* filled cache slots the keyframe does not fill
SeekStateWitness ==
  /\ Returned /\ ret.frameIndex = 0 /\ dec.lastDecodedFrameIndex = 0
  /\ Len(sent) >= 2 /\ ~trace[2].isKeyframe /\ ~dec.isYuvMode
  /\ trace[2].rgbIndex # trace[1].rgbIndex
  /\ dec.currFrame = sent[2]
  /\ dec.index = trace[1].rgbIndex

\* where the chunk after chunk k of the layout starts in the encoder's buffer
NextChunkStart(k) ==
  IF k < Len(layout) THEN layout[k + 1].offset ELSE Len(enc.buffer)

\* C6: framing exactness.  In the byte stream the encoder has produced so
\* far (compression on or off, chunks stored compressed or not), the size
\* field of every SYNC, KEYFRAME, PFRAME and INDEX chunk is the number of
\* bytes between the end of the chunk's 10-byte header and the first byte of
\* the next chunk's header.
FramingExact ==
  \A k \in 1..Len(layout) :
     /\ At(enc.buffer, layout[k].offset) = layout[k].type
     /\ layout[k].type # QOV_CHUNK_END =>
          ReadU32(enc.buffer, layout[k].offset + 2)
             = NextChunkStart(k) - (layout[k].offset + 10)

\* a finished stream with a SYNC, a KEYFRAME, an INDEX chunk and two
\* PFRAME chunks, one stored compressed and one stored uncompressed
FramingExactWitness ==
  /\ file # <<>> /\ enc.compressionEnabled
  /\ \E k \in 1..Len(layout) : layout[k].type = QOV_CHUNK_INDEX
  /\ \E j, k \in 1..Len(layout) :
        /\ layout[j].type = QOV_CHUNK_PFRAME /\ layout[k].type = QOV_CHUNK_PFRAME
        /\ At(file, layout[j].offset + 1) \div 16 = 1
        /\ At(file, layout[k].offset + 1) \div 16 = 0

\* C4: cache synchrony.  After frame i has been encoded and the decoder has
\* decoded frame i, the decoder's colour cache equals the encoder's colour
\* cache after frame i (RGB), and the value cache of every plane equals the
\* encoder's value cache of that plane after frame i (YUV), in all 64 slots.
CacheSynchrony ==
  Returned =>
     IF enc.isYuvMode
     THEN dec.planeIndex = trace[ret.frameIndex + 1].planeIndex
     ELSE dec.index = trace[ret.frameIndex + 1].rgbIndex

\* C5: the YUV opcode layer is lossless.  In colorspaces 0x10-0x13 every
\* plane the decoder has reconstructed for frame i equals the plane the
\* encoder computed from input frame i, and the returned pixels are the
\* conversion of those planes back to RGBA.
YuvLossless ==
  (Returned /\ enc.isYuvMode) =>
     LET planes == trace[ret.frameIndex + 1].planes
     IN  /\ dec.prevYPlane = planes[1]
         /\ dec.prevUPlane = planes[2]
         /\ dec.prevVPlane = planes[3]
         /\ Len(planes) = 4 => dec.prevAPlane = planes[4]
         /\ ret.result.pixels
              = YuvPlanesToRgba(planes[1], planes[2], planes[3],
                                IF Len(planes) = 4 THEN planes[4] ELSE <<>>,
                                enc.width, enc.height, enc.colorspace)

(***************************************************************************)
(* Specification SpecIndex: buildIndex over a data source that holds a     *)
(* whole finished file or a file cut short, in memory (FileDataSource) or  *)
(* arriving progressively (UrlDataSource, content length known or not).    *)
(* buildIndex runs without interruption between two of its timer waits.    *)
(***************************************************************************)
\* the finished file of a session: calls is a sequence of <<asKeyframe, k>>,
\* k the frame's place in the pool
RECURSIVE EncodeAll(_, _)
EncodeAll(e, cs) ==
  IF cs = <<>> THEN e
  ELSE LET pixels == FramePool(e.width)[Head(cs)[2]]
           ts     == FrameTimestamp(e.frameCount)
       IN  EncodeAll(IF Head(cs)[1] THEN encodeKeyframe(e, pixels, ts)
                     ELSE encodePFrame(e, pixels, ts), Tail(cs))

FinishedFile(colorspace, compressionEnabled, cs) ==
  finish(EncodeAll(writeHeader(NewEncoder(Width, 1, QOV_FLAG_HAS_INDEX, colorspace,
                                          compressionEnabled)), cs)).buffer

SampleSessions ==
  {<<QOV_COLORSPACE_SRGB, FALSE, <<<<TRUE, 1>>, <<FALSE, 3>>>>>>,
   <<QOV_COLORSPACE_YUVA420, TRUE, <<<<TRUE, 4>>, <<FALSE, 1>>, <<TRUE, 2>>>>>>}

SampleFiles == {FinishedFile(c[1], c[2], c[3]) : c \in SampleSessions}

\* where a file is cut: not at all, inside the file header, and for every
\* chunk at its first byte, inside its header and inside its payload
Cuts(data) ==
  With(FreshDecoder(data).chunks, LAMBDA chunks :
       {Len(data), 10}
       \cup {chunks[k].offset + n : k \in 1..Len(chunks), n \in {0, 3, 11}})

\* how many bytes one chunk of the download carries
NetChunkSizes == {16, 50}

InitIndex ==
  /\ enc = NewEncoder(Width, 1, QOV_FLAG_HAS_INDEX, QOV_COLORSPACE_SRGB, FALSE)
  /\ sent = <<>>
  /\ trace = <<>>
  /\ layout = <<>>
  /\ \E whole \in SampleFiles : \E n \in Cuts(whole) :
        /\ file = SubArray(whole, 0, n)
        /\ bi = [IdleIndex EXCEPT !.whole = (n = Len(whole))]
  /\ src \in {FileDataSource(file), UrlDataSource(file, TRUE),
              UrlDataSource(file, FALSE)}
  /\ dec = NewDecoder
  /\ ret = [frameIndex |-> -1, result |-> NullResult]
  /\ calls = <<>>
  /\ timers = <<>>
  /\ clock = 0
  /\ log = <<>>
  /\ lz = NoBlock

\* a chunk of the download arrives
Deliver ==
  /\ src.kind = "url" /\ src.loading /\ src.loadedSize < Len(src.data)
  /\ \E n \in NetChunkSizes : src' = DownloadChunk(src, n)
  /\ UNCHANGED <<enc, sent, trace, layout, file, dec, ret, bi, calls, timers, clock, log, lz>>

\* the download's reader reports the end of the body
DownloadComplete ==
  /\ src.kind = "url" /\ src.loading /\ src.loadedSize = Len(src.data)
  /\ src' = DownloadDone(src)
  /\ UNCHANGED <<enc, sent, trace, layout, file, dec, ret, bi, calls, timers, clock, log, lz>>

\* buildIndex goes on from the header read to its next wait
RunFromHeader ==
  \E r \in {BuildIndexFromHeader(dec, src)} :
      /\ dec' = r.dec
      /\ bi' = [bi EXCEPT !.pc = r.pc, !.offset = r.offset, !.fileSize = getSize(src)]
      /\ UNCHANGED clock

\* buildIndex is called: it runs up to its first wait
CallBuildIndex ==
  /\ bi.pc = "idle"
  /\ IF ReadReady(src, 0, 24) THEN RunFromHeader
     ELSE bi' = [bi EXCEPT !.pc = "header"] /\ UNCHANGED <<dec, clock>>
  /\ UNCHANGED <<enc, sent, trace, layout, file, ret, src, calls, timers, log, lz>>

\* the 50 ms timer of source.read(0, 24) fires
WakeHeader ==
  /\ bi.pc = "header"
  /\ IF ReadReady(src, 0, 24) THEN RunFromHeader
     ELSE clock' = 1 - clock /\ UNCHANGED <<dec, bi>>
  /\ UNCHANGED <<enc, sent, trace, layout, file, ret, src, calls, timers, log, lz>>

\* the 100 ms timer of buildIndex's loop fires
WakeScan ==
  /\ bi.pc = "scan"
  /\ \E r \in {ScanLoop(dec, src, bi.offset, bi.fileSize)} :
         /\ dec' = r.dec
         /\ bi' = [bi EXCEPT !.pc = r.pc, !.offset = r.offset]
         /\ clock' = IF r.pc = "scan" /\ r.offset = bi.offset THEN 1 - clock ELSE clock
  /\ UNCHANGED <<enc, sent, trace, layout, file, ret, src, calls, timers, log, lz>>

NextIndex == Deliver \/ DownloadComplete \/ CallBuildIndex \/ WakeHeader \/ WakeScan

\* the network delivers, the caller calls, and timers fire
SpecIndex ==
  /\ InitIndex /\ [][NextIndex]_vars
  /\ WF_vars(Deliver) /\ WF_vars(DownloadComplete) /\ WF_vars(CallBuildIndex)
  /\ WF_vars(WakeHeader) /\ WF_vars(WakeScan)

\* every byte of the input has been delivered
AllDelivered == src.kind = "file" \/ ~src.loading

\* buildIndex has returned or thrown
IndexFinished == bi.pc \in {"done", "failed"}

\* C8: buildIndex terminates on every input whose bytes have all been
\* delivered, also when the data ends inside a chunk header or a payload or
\* without an END chunk.
BuildIndexTerminates == (AllDelivered /\ bi.pc # "idle") ~> IndexFinished

\* the index of a decoder
ChunkIndex(d) == <<d.chunks, d.totalFrames, d.keyframeIndices>>

\* C9: buildIndex tolerates data that has not arrived yet.  Over a whole
\* finished file delivered progressively, with the size known in advance or
\* not, buildIndex never fails, and once it is done and all bytes are there
\* its chunk descriptors, frame count and keyframe indices are those it
\* records for the same file fully loaded.
IndexTolerant ==
  (bi.whole /\ src.kind = "url") =>
     /\ bi.pc # "failed"
     /\ (bi.pc = "done" /\ AllDelivered) => ChunkIndex(dec) = ChunkIndex(FreshDecoder(file))

(***************************************************************************)
(* Specification SpecConc: decodeFrame calls issued concurrently on one    *)
(* streaming decoder over a UrlDataSource whose download is under way.     *)
(* JavaScript runs a call without interruption from one timer wait to the  *)
(* next: the 1 ms poll for the guard, the 50 ms poll of source.read and    *)
(* the 100 ms poll of buildIndex's loop.  A call is a record of its        *)
(* argument, the wait it is in (pc), the loop variable of that wait (at:   *)
(* the scan offset or the frame being read) and its result.                *)
(***************************************************************************)
\* a faulty variant of TakeGuard: the guard is never set
TakeGuardNot(d) == d

\* "this.decoding = true"
TakeGuard(d) == [d EXCEPT !.decoding = TRUE]

\* a faulty variant of ReleaseGuard: a call that ends leaves the guard set
ReleaseGuardNot(d) == d

\* "finally { this.decoding = false }"
ReleaseGuard(d) == [d EXCEPT !.decoding = FALSE]

NewCall(frameIndex) ==
  [frameIndex |-> frameIndex, pc |-> "guard", at |-> 0, fileSize |-> NoSize,
   result |-> NullResult]

\* the call returns or throws
Finished(d, c, result) ==
  [dec |-> ReleaseGuard(d), call |-> [c EXCEPT !.pc = "done", !.result = result]]

\* the first chunk of frame i, as chunks.find gives it; <<>> for none
FrameChunk(d, i) ==
  LET hits == {k \in 1..Len(d.chunks) : d.chunks[k].frameIndex = i}
  IN  IF hits = {} THEN <<>>
      ELSE <<d.chunks[CHOOSE k \in hits : \A j \in hits : k <= j]>>

\* decodeFrame from the place c.pc on, up to its next timer wait or its end:
\* [dec, call].  The places: "guard" the while loop on this.decoding,
\* "header" parseHeader's read, "index" the call of buildIndex, "scan"
\* buildIndex's loop, "seek" the range check and the seek decision, "read"
\* decodeNextFrame(c.at) inside the replay loop.
RECURSIVE RunCall(_, _, _)
RunCall(d, s, c) ==
  CASE c.pc = "guard" ->
         IF d.decoding THEN [dec |-> d, call |-> c]
         ELSE RunCall(TakeGuard(d), s, [c EXCEPT !.pc = "header"])
    [] c.pc = "header" ->
         IF d.headerParsed THEN RunCall(d, s, [c EXCEPT !.pc = "index"])
         ELSE IF ~ReadReady(s, 0, 24) THEN [dec |-> d, call |-> c]
         ELSE IF ReadThrows(s, 0, 24) THEN Finished(d, c, ErrorResult)
         ELSE With(parseHeader(d, ReadData(s, 0, 24)), LAMBDA h :
                IF h.ok THEN RunCall(h.dec, s, [c EXCEPT !.pc = "index"])
                ELSE Finished(d, c, ErrorResult))
    [] c.pc = "index" ->
         IF d.indexBuilt THEN RunCall(d, s, [c EXCEPT !.pc = "seek"])
         ELSE With(StartIndex(d), LAMBDA d0 :
                RunCall(d0, s, [c EXCEPT !.pc = "scan", !.at = 24,
                                         !.fileSize = getSize(s)]))
    [] c.pc = "scan" ->
         With(ScanLoop(d, s, c.at, c.fileSize), LAMBDA r :
           IF r.pc = "scan" THEN [dec |-> r.dec, call |-> [c EXCEPT !.at = r.offset]]
           ELSE IF r.pc = "failed" THEN Finished(r.dec, c, ErrorResult)
           ELSE RunCall(r.dec, s, [c EXCEPT !.pc = "seek"]))
    [] c.pc = "seek" ->
         IF c.frameIndex < 0 \/ c.frameIndex >= d.totalFrames
         THEN Finished(d, c, NullResult)
         ELSE IF c.frameIndex <= d.lastDecodedFrameIndex - 1
                 \/ c.frameIndex > d.lastDecodedFrameIndex + 1
         THEN With(findPrecedingKeyframe(d, c.frameIndex), LAMBDA keyframeIdx :
                RunCall([resetIndex(d) EXCEPT !.lastDecodedFrameIndex = keyframeIdx - 1],
                        s, [c EXCEPT !.pc = "read", !.at = keyframeIdx]))
         ELSE IF c.frameIndex = d.lastDecodedFrameIndex + 1
         THEN RunCall(d, s, [c EXCEPT !.pc = "read", !.at = c.frameIndex])
         ELSE Finished(d, c, FrameResult(d, c.frameIndex))
    [] c.pc = "read" ->
         IF c.at > c.frameIndex THEN Finished(d, c, FrameResult(d, c.frameIndex))
         ELSE With(FrameChunk(d, c.at), LAMBDA found :
           IF found = <<>> THEN Finished(d, c, ErrorResult)
           ELSE LET offset   == found[1].offset + HeaderSize(d)
                    dataSize == found[1].size - HeaderSize(d)
                IN  IF ~ReadReady(s, offset, dataSize) THEN [dec |-> d, call |-> c]
                    ELSE IF ReadThrows(s, offset, dataSize)
                    THEN Finished(d, c, ErrorResult)
                    ELSE With(decodeNextFrame(d, c.at, ReadData(s, offset, dataSize)).dec,
                              LAMBDA d1 : RunCall(d1, s, [c EXCEPT !.at = @ + 1])))
    [] OTHER -> [dec |-> d, call |-> c]

InitConc ==
  /\ enc = NewEncoder(Width, 1, QOV_FLAG_HAS_INDEX, QOV_COLORSPACE_SRGB, FALSE)
  /\ sent = <<>>
  /\ trace = <<>>
  /\ layout = <<>>
  /\ file \in SampleFiles
  /\ src = UrlDataSource(file, TRUE)
  /\ bi = IdleIndex
  /\ dec = NewDecoder
  /\ ret = [frameIndex |-> -1, result |-> NullResult]
  /\ calls = <<>>
  /\ timers = <<>>
  /\ clock = 0
  /\ log = <<>>
  /\ lz = NoBlock

\* the application calls decodeFrame(frameIndex) and does not await it: the
\* call runs to its first wait; a call that finds the guard taken sets its
\* 1 ms timer
IssueCall ==
  /\ Len(calls) < MaxCalls
  /\ \E frameIndex \in 0..(MaxFrames - 1) :
       \E r \in {RunCall(dec, src, NewCall(frameIndex))} :
          /\ dec' = r.dec
          /\ calls' = Append(calls, r.call)
          /\ timers' = IF r.call.pc = "guard" THEN Append(timers, Len(calls) + 1)
                       ELSE timers
  /\ UNCHANGED <<enc, sent, trace, layout, file, ret, src, bi, clock, log, lz>>

\* a faulty variant of PollGuard: a call that finds the guard still taken
\* does not set its timer again
PollGuardOnce ==
  /\ timers # <<>>
  /\ \E r \in {RunCall(dec, src, calls[Head(timers)])} :
        /\ dec' = r.dec
        /\ calls' = [calls EXCEPT ![Head(timers)] = r.call]
        /\ timers' = Tail(timers)
  /\ UNCHANGED <<enc, sent, trace, layout, file, ret, src, bi, clock, log, lz>>

\* the oldest 1 ms timer fires: its call looks at the guard again, and sets
\* a new timer when the guard is still taken
PollGuard ==
  /\ timers # <<>>
  /\ \E r \in {RunCall(dec, src, calls[Head(timers)])} :
        /\ dec' = r.dec
        /\ calls' = [calls EXCEPT ![Head(timers)] = r.call]
        /\ timers' = IF r.call.pc = "guard" THEN Append(Tail(timers), Head(timers))
                     ELSE Tail(timers)
  /\ UNCHANGED <<enc, sent, trace, layout, file, ret, src, bi, clock, log, lz>>

\* the places of the decode section a call can wait in
Inside == {"header", "scan", "read"}

\* the 50 ms or 100 ms timer of the call inside the decode section fires
WakeCall ==
  /\ \E k \in 1..Len(calls) :
       /\ calls[k].pc \in Inside
       /\ \E r \in {RunCall(dec, src, calls[k])} :
             /\ dec' = r.dec
             /\ calls' = [calls EXCEPT ![k] = r.call]
  /\ UNCHANGED <<enc, sent, trace, layout, file, ret, src, bi, timers, clock, log, lz>>

NextConc == Deliver \/ DownloadComplete \/ IssueCall \/ PollGuard \/ WakeCall

SpecConc == InitConc /\ [][NextConc]_vars

\* the calls inside the decode section
InSection == {k \in 1..Len(calls) : calls[k].pc \in Inside}

\* C3: at most one decodeFrame call is between taking and releasing the
\* decoding guard at any time, the guard is set exactly while a call is
\* there, and every other unfinished call is waiting for the guard with its
\* timer set.
GuardExclusive ==
  /\ Cardinality(InSection) <= 1
  /\ dec.decoding <=> InSection # {}
  /\ \A k \in 1..Len(calls) :
       k \notin InSection /\ calls[k].pc # "done" =>
          calls[k].pc = "guard" /\ \E t \in 1..Len(timers) : timers[t] = k

\* a call is inside the decode section and two more wait for the guard, the
\* one issued first having looked at the guard again and found it taken
GuardExclusiveWitness ==
  /\ InSection # {}
  /\ Len(timers) = 2
  /\ calls[timers[1]].pc = "guard" /\ calls[timers[2]].pc = "guard"
  /\ timers[1] > timers[2]

\* C7: of two calls decodeFrame(i), issued first, and decodeFrame(j) with
\* j > i, the later one has not taken the guard before the earlier one has
\* produced its output.
DecodeOrder ==
  \A a \in 1..Len(calls) : \A b \in (a + 1)..Len(calls) :
     (calls[a].frameIndex < calls[b].frameIndex /\ calls[b].pc # "guard")
        => calls[a].pc = "done"

(***************************************************************************)
(* Specification SpecLife: the encoder's public methods called in any      *)
(* order once the header is written, frames after finish and finish after  *)
(* finish included.  log holds one record per call: the method, how many   *)
(* finish calls came before it, how the call ended, the encoder before    *)
(* and after, the frame passed in and the bytes finish returned.           *)
(***************************************************************************)
\* finish calls in one session
MaxFinish == 2

\* what a caller can see of the encoder: the output bytes, the frame count
\* and the keyframe index
Output(e) == [buffer |-> e.buffer, frameCount |-> e.frameCount,
              keyframes |-> e.keyframes]

FinishCalls == Len(SelectSeq(log, LAMBDA c : c.op = "finish"))

\* the record of a call that returned normally (no method of the encoder
\* has a throw statement)
CallRecord(op, e, e2, pixels, bytes) ==
  [op |-> op, finished |-> FinishCalls, result |-> "ok",
   before |-> e, after |-> e2, pixels |-> pixels, bytes |-> bytes]

InitLife ==
  /\ Init
  /\ enc.colorspace \in {QOV_COLORSPACE_SRGB, QOV_COLORSPACE_YUVA420}

EncodeKeyframeAnyTime ==
  /\ enc.buffer # <<>>
  /\ enc.frameCount < MaxFrames
  /\ \E k \in 1..Len(FramePool(Width)) :
       \E e2 \in {encodeKeyframe(enc, FramePool(Width)[k],
                                 FrameTimestamp(enc.frameCount))} :
          /\ enc' = e2
          /\ log' = Append(log, CallRecord("encodeKeyframe", enc, e2,
                                              FramePool(Width)[k], <<>>))
  /\ UNCHANGED <<sent, trace, layout, file, dec, ret, src, bi, calls, timers, clock, lz>>

EncodePFrameAnyTime ==
  /\ enc.buffer # <<>>
  /\ enc.frameCount < MaxFrames
  /\ \E k \in 1..Len(FramePool(Width)) :
       \E e2 \in {encodePFrame(enc, FramePool(Width)[k],
                               FrameTimestamp(enc.frameCount))} :
          /\ enc' = e2
          /\ log' = Append(log, CallRecord("encodePFrame", enc, e2,
                                              FramePool(Width)[k], <<>>))
  /\ UNCHANGED <<sent, trace, layout, file, dec, ret, src, bi, calls, timers, clock, lz>>

FinishAnyTime ==
  /\ enc.buffer # <<>>
  /\ FinishCalls < MaxFinish
  /\ \E e2 \in {finish(enc)} :
        /\ enc' = e2
        /\ log' = Append(log, CallRecord("finish", enc, e2, <<>>, e2.buffer))
  /\ UNCHANGED <<sent, trace, layout, file, dec, ret, src, bi, calls, timers, clock, lz>>

NextLife == WriteHeader \/ EncodeKeyframeAnyTime \/ EncodePFrameAnyTime \/ FinishAnyTime

SpecLife == InitLife /\ [][NextLife]_vars

\* C11: idempotent finish.  Of two finish calls on the same encoder with no
\* call between them, the second returns the byte sequence the first
\* returned.
FinishIdempotent ==
  \A i \in 1..(Len(log) - 1) :
     (log[i].op = "finish" /\ log[i + 1].op = "finish")
        => log[i + 1].bytes = log[i].bytes

\* C12: no frame after finish.  An encodeKeyframe or encodePFrame call made
\* after a finish call fails with InvalidArgument and leaves the output
\* bytes, the frame count and the keyframe index as they were.
NoFrameAfterFinish ==
  \A i \in 1..Len(log) :
     (log[i].op # "finish" /\ log[i].finished > 0)
        => /\ log[i].result = "InvalidArgument"
           /\ Output(log[i].after) = Output(log[i].before)

(***************************************************************************)
(* Specification SpecLz4: lz4Compress applied to a byte block and          *)
(* lz4Decompress applied to what it returned.  lz holds the block (input), *)
(* the compressed block and the decompressed output.                       *)
(***************************************************************************)
\* longest repeated part of a block
MaxLz4Run == 40

\* k bytes that differ from each other
Ramp(k) == [i \in 1..k |-> 100 + i]

\* what is repeated: one byte, two bytes, five bytes with a repeat inside
\* and seven bytes that start with a run
Lz4Patterns == {<<0>>, <<1, 2>>, <<3, 1, 4, 1, 5>>, <<9, 9, 9, 9, 9, 9, 7>>}

\* blocks without and with matches: every block of up to 6 bytes over two
\* byte values, and 0, 2 or 17 distinct bytes followed by a repeated pattern
Lz4Inputs ==
  UNION {[1..n -> {0, 255}] : n \in 0..6}
  \cup {Ramp(k) \o Cycle(p, n) : k \in {0, 2, 17}, p \in Lz4Patterns,
                                 n \in 0..MaxLz4Run}

InitLz4 ==
  /\ enc = NewEncoder(Width, 1, 0, QOV_COLORSPACE_SRGB, TRUE)
  /\ sent = <<>> /\ trace = <<>> /\ layout = <<>> /\ file = <<>>
  /\ dec = NewDecoder
  /\ ret = [frameIndex |-> -1, result |-> NullResult]
  /\ src = FileDataSource(<<>>)
  /\ bi = IdleIndex
  /\ calls = <<>> /\ timers = <<>> /\ clock = 0 /\ log = <<>>
  /\ \E s \in Lz4Inputs : lz = [NoBlock EXCEPT !.pc = "new", !.input = s]

\* lz4Compress(input): a compressed block or null (store uncompressed)
Compress ==
  /\ lz.pc = "new"
  /\ \E r \in {lz4Compress(lz.input)} :
        lz' = [lz EXCEPT !.pc = IF r.ok THEN "compressed" ELSE "stored",
                         !.block = r.data]
  /\ UNCHANGED <<enc, sent, trace, layout, file, dec, ret, src, bi, calls, timers,
                 clock, log>>

\* lz4Decompress(block, input.length)
Decompress ==
  /\ lz.pc = "compressed"
  /\ lz' = [lz EXCEPT !.pc = "restored",
                      !.output = lz4Decompress(lz.block, Len(lz.input))]
  /\ UNCHANGED <<enc, sent, trace, layout, file, dec, ret, src, bi, calls, timers,
                 clock, log>>

NextLz4 == Compress \/ Decompress

SpecLz4 == InitLz4 /\ [][NextLz4]_vars

\* C13: LZ4 round trip.  When lz4Compress returned a compressed block for
\* s, lz4Decompress of that block with output size |s| is exactly s.
Lz4RoundTrip == lz.pc = "restored" => lz.output = lz.input

\* a block has been restored whose compressed form has a literal run of 15
\* or more bytes, a match of 19 or more bytes (both with length extension
\* bytes) and a match that overlaps the bytes it produces
Lz4RoundTripWitness ==
  /\ lz.pc = "restored" /\ lz.output = lz.input
  /\ Len(lz.input) > 50
  /\ lz.block[1] = 255
  /\ SubArray(lz.input, 17, 23) = <<0, 0, 0, 0, 0, 0>>
  /\ Len(lz.block) < 30

(***************************************************************************)
(* Specification SpecEnc: one encoder session (writeHeader, frames,        *)
(* finish) for every colorspace, with and without the HAS_INDEX flag.      *)
(***************************************************************************)
EncFlags == {0, QOV_FLAG_HAS_INDEX}

InitEnc ==
  /\ enc \in {NewEncoder(Width, 1, f, c[1], c[2]) : c \in Configs, f \in EncFlags}
  /\ sent = <<>> /\ trace = <<>> /\ layout = <<>> /\ file = <<>>
  /\ dec = NewDecoder
  /\ ret = [frameIndex |-> -1, result |-> NullResult]
  /\ src = FileDataSource(<<>>)
  /\ bi = IdleIndex
  /\ calls = <<>> /\ timers = <<>> /\ clock = 0 /\ log = <<>>
  /\ lz = NoBlock

NextEnc == WriteHeader \/ EncodeKeyframe \/ EncodePFrame \/ Finish

SpecEnc == InitEnc /\ [][NextEnc]_vars

\* the chunks of the stream that hold a frame
IsFrameChunk(k) == layout[k].type \in {QOV_CHUNK_KEYFRAME, QOV_CHUNK_PFRAME}

\* the chunk the last encode call wrote its frame to
LastFrameChunk ==
  CHOOSE k \in 1..Len(layout) :
     IsFrameChunk(k) /\ \A j \in (k + 1)..Len(layout) : ~IsFrameChunk(j)

\* the bytes of chunk k behind its 10-byte header
ChunkBody(k) == SubArray(enc.buffer, layout[k].offset + 10, NextChunkStart(k))

ChunkFlags(k) == At(enc.buffer, layout[k].offset + 1)

\* C14: compression gating.  With compression enabled, the chunk of the
\* frame just encoded has flag bit 4 set and holds the 32-bit payload size
\* followed by the LZ4 block exactly when the LZ4 block of the frame's
\* payload (opcodes plus end marker) is shorter than 95% of the payload;
\* otherwise bit 4 is clear and the chunk holds the payload unchanged.
CompressionGating ==
  (enc.compressionEnabled /\ trace # <<>>) =>
     LET k       == LastFrameChunk
         payload == enc.frameBuffer
         block   == Lz4Block(payload)
         flagged == HasFlag(ChunkFlags(k), QOV_CHUNK_FLAG_COMPRESSED)
     IN  /\ SubArray(payload, Len(payload) - 8, Len(payload)) = EndMarker
         /\ flagged <=> Len(block) * 100 < Len(payload) * 95
         /\ ChunkBody(k) = IF flagged THEN U32Bytes(Len(payload)) \o block
                           ELSE payload

\* the frame just encoded is stored compressed and is shorter than its
\* payload, and the frame before it in the same stream is stored as it is
CompressionGatingWitness ==
  /\ enc.compressionEnabled /\ Len(trace) >= 2
  /\ HasFlag(ChunkFlags(LastFrameChunk), QOV_CHUNK_FLAG_COMPRESSED)
  /\ Len(ChunkBody(LastFrameChunk)) < Len(enc.frameBuffer)
  /\ \E j \in 1..(LastFrameChunk - 1) :
        IsFrameChunk(j) /\ ~HasFlag(ChunkFlags(j), QOV_CHUNK_FLAG_COMPRESSED)

\* the chunks a reader finds in a byte stream from offset on, each chunk's
\* size field leading to the next chunk: [type, offset, size]
RECURSIVE ChunkWalk(_, _)
ChunkWalk(buffer, offset) ==
  IF offset + 10 > Len(buffer) THEN <<>>
  ELSE LET type == At(buffer, offset)
           size == ReadU32(buffer, offset + 2)
       IN  <<[type |-> type, offset |-> offset, size |-> size]>>
           \o (IF type = QOV_CHUNK_END THEN <<>>
               ELSE ChunkWalk(buffer, offset + 10 + size))

\* the chunks of the encoder's output behind the 24-byte file header
Chunks == ChunkWalk(enc.buffer, 24)

IsFrame(c) == c.type \in {QOV_CHUNK_KEYFRAME, QOV_CHUNK_PFRAME}

\* the number of the frame in chunk k of w: the frame chunks before it
FrameNumber(w, k) == Cardinality({j \in 1..(k - 1) : IsFrame(w[j])})

\* the body of chunk c
Body(c) == SubArray(enc.buffer, c.offset + 10, c.offset + 10 + c.size)

\* C15: SYNC placement.  In the encoder's output every KEYFRAME chunk comes
\* directly after a SYNC chunk whose 8-byte body is "QOVS" and the
\* keyframe's frame number (big-endian), and no PFRAME chunk comes directly
\* after a SYNC chunk.
SyncPlacement ==
  With(Chunks, LAMBDA w :
    \A k \in 1..Len(w) :
       /\ w[k].type = QOV_CHUNK_KEYFRAME =>
            /\ k > 1
            /\ w[k - 1].type = QOV_CHUNK_SYNC
            /\ Body(w[k - 1]) = <<81, 79, 86, 83>> \o U32Bytes(FrameNumber(w, k))
       /\ w[k].type = QOV_CHUNK_PFRAME =>
            k > 1 /\ w[k - 1].type # QOV_CHUNK_SYNC)

\* a finished stream of a keyframe, a P-frame and a second keyframe: the
\* second SYNC chunk carries frame number 2 and the PFRAME chunk follows the
\* first KEYFRAME chunk
SyncPlacementWitness ==
  /\ file # <<>>
  /\ [k \in 1..Len(Chunks) |-> Chunks[k].type]
       = <<QOV_CHUNK_SYNC, QOV_CHUNK_KEYFRAME, QOV_CHUNK_PFRAME, QOV_CHUNK_SYNC,
           QOV_CHUNK_KEYFRAME, QOV_CHUNK_INDEX, QOV_CHUNK_END>>
  /\ Body(Chunks[4]) = <<81, 79, 86, 83, 0, 0, 0, 2>>

\* the places of the chunks of type t in w
OfType(w, t) == {k \in 1..Len(w) : w[k].type = t}

IndexEntryAt(data, c, i) ==
  LET at == c.offset + 10 + 4 + (i - 1) * 16
  IN  [frameNumber |-> ReadU32(data, at), offsetHigh |-> ReadU32(data, at + 4),
       offset |-> ReadU32(data, at + 8), timestamp |-> ReadU32(data, at + 12)]

\* the places of the KEYFRAME chunks of w in ascending order
RECURSIVE Ascending(_)
Ascending(S) ==
  IF S = {} THEN <<>>
  ELSE LET m == CHOOSE x \in S : \A y \in S : x <= y
       IN  <<m>> \o Ascending(S \ {m})

\* C17: INDEX entries.  The INDEX chunk of a finished stream holds one entry
\* per keyframe, in encoding order; entry i carries the frame number and the
\* timestamp of the i-th keyframe, and its offset is the byte offset at which
\* the SYNC chunk before that keyframe begins.
IndexEntries ==
  file # <<>> =>
     With(ChunkWalk(file, 24), LAMBDA w :
       \A x \in OfType(w, QOV_CHUNK_INDEX) :
          LET kf == Ascending(OfType(w, QOV_CHUNK_KEYFRAME))
          IN  /\ ReadU32(file, w[x].offset + 10) = Len(kf)
              /\ w[x].size = 4 + 16 * Len(kf)
              /\ \A i \in 1..Len(kf) :
                    IndexEntryAt(file, w[x], i)
                      = [frameNumber |-> FrameNumber(w, kf[i]),
                         offsetHigh  |-> 0,
                         offset      |-> w[kf[i] - 1].offset,
                         timestamp   |-> ReadU32(file, w[kf[i]].offset + 6)])

\* a finished stream whose second keyframe is frame 2 and follows a P-frame:
\* the second INDEX entry points behind the PFRAME chunk, at the second SYNC
IndexEntriesWitness ==
  /\ file # <<>> /\ Len(sent) = 3 /\ ~trace[2].isKeyframe /\ trace[3].isKeyframe
  /\ OfType(ChunkWalk(file, 24), QOV_CHUNK_INDEX) = {6}
  /\ IndexEntryAt(file, ChunkWalk(file, 24)[6], 2).frameNumber = 2
  /\ IndexEntryAt(file, ChunkWalk(file, 24)[6], 2).timestamp = FrameTimestamp(2)
  /\ IndexEntryAt(file, ChunkWalk(file, 24)[6], 2).offset
       = ChunkWalk(file, 24)[4].offset

\* C18: frame counter.  After k encode calls getFrameCount returns k, and
\* finish writes k as a big-endian 32-bit value at header offset 14; with
\* k = 0 the finished stream is the 24-byte header followed by the END
\* chunk.
FrameCounter ==
  enc.buffer # <<>> =>
     /\ getFrameCount(enc) = Len(sent)
     /\ file # <<>> =>
          /\ SubArray(file, 14, 18) = U32Bytes(Len(sent))
          /\ Len(sent) = 0 =>
               /\ Len(file) = 24 + 18
               /\ SubArray(file, 0, 4) = <<113, 111, 118, 102>>
               /\ SubArray(file, 24, 42)
                    = <<255, 0, 0, 0, 0, 0, 0, 0, 0, 0, 0, 0, 0, 0, 0, 0, 0, 1>>

\* a finished stream of three frames, of which one was a keyframe call and
\* one a P-frame call: the header says 3
FrameCounterWitness ==
  /\ file # <<>> /\ Len(sent) = 3 /\ trace[2].isKeyframe /\ ~trace[3].isKeyframe
  /\ SubArray(file, 14, 18) = <<0, 0, 0, 3>>
  /\ getFrameCount(enc) = 3

\* the types of the chunks call c appended to the encoder's output
Appended(c) ==
  With(ChunkWalk(c.after.buffer, Len(c.before.buffer)), LAMBDA w :
       [k \in 1..Len(w) |-> w[k].type])

SkipLongUnambiguous ==
  \A i \in 1..Len(trace) :
     ~trace[i].isKeyframe =>
        \A j \in 1..Len(trace[i].indexOps) : trace[i].indexOps[j] \in 1..63

(***************************************************************************)
(* Specification SpecRun: an encoder for one row of RunWidth pixels is     *)
(* given rows that hold long stretches of one colour, as keyframes and as  *)
(* P-frames.                                                               *)
(***************************************************************************)
RunWidth == 64
MaxRunFrames == 2
\* pixels a P-frame changes
MaxChanged == 2

\* a row of the given width: n pixels of colour a, then colour b
Row(a, n, b, width) == [i \in 1..width |-> IF i <= n THEN a ELSE b]

RunColours == {Palette.K, Palette.R}

\* where the colour of a row changes: next to its ends
RunSplits == {0, 1, 2, RunWidth - 2, RunWidth - 1, RunWidth}

WideRows == {Row(a, n, b, RunWidth) : a \in RunColours, b \in RunColours,
                                      n \in RunSplits}

\* the bytes one encode call writes as RUN or SKIP opcodes, in the order
\* written; e is the encoder before the call
RunOpcodes(e, pixels, asKeyframe) ==
  LET planes == RgbaToYuvPlanes(pixels, e.width, e.height, e.colorspace, e.hasAlpha)
  IN  IF e.isYuvMode
      THEN With(IF asKeyframe \/ e.prevYPlane = <<>> THEN YuvKeyframePlanes(planes)
                ELSE YuvPFramePlanes(e, planes),
                LAMBDA res : Concat([k \in 1..Len(res) |-> res[k].runs]))
      ELSE IF asKeyframe \/ e.prevFrame = <<>>
      THEN encodeRgbKeyframeData(pixels, e.width * e.height, 0, 0, EmptyRgbIndex,
                                 OpaqueBlack, <<>>, <<>>).runs
      ELSE encodeRgbPFrameData(pixels, e.prevFrame, e.width * e.height, 0, 0,
                               e.rgbIndex, <<>>, <<>>).runs

RunRecord(op, e, e2, pixels) ==
  [op |-> op, before |-> e, after |-> e2, pixels |-> pixels,
   runs |-> RunOpcodes(e, pixels, op = "encodeKeyframe")]

InitRun ==
  /\ enc \in {NewEncoder(RunWidth, 1, 0, c, FALSE) :
                c \in {QOV_COLORSPACE_SRGB, QOV_COLORSPACE_YUV420,
                       QOV_COLORSPACE_YUV444}}
  /\ sent = <<>> /\ trace = <<>> /\ layout = <<>> /\ file = <<>>
  /\ dec = NewDecoder
  /\ ret = [frameIndex |-> -1, result |-> NullResult]
  /\ src = FileDataSource(<<>>)
  /\ bi = IdleIndex
  /\ calls = <<>> /\ timers = <<>> /\ clock = 0 /\ log = <<>>
  /\ lz = NoBlock

EncodeKeyframeRow ==
  /\ enc.buffer # <<>>
  /\ enc.frameCount < MaxRunFrames
  /\ \E pixels \in WideRows :
       /\ enc' = encodeKeyframe(enc, pixels, FrameTimestamp(enc.frameCount))
       /\ log' = Append(log, RunRecord("encodeKeyframe", enc, enc', pixels))
  /\ UNCHANGED <<sent, trace, layout, file, dec, ret, src, bi, calls, timers, clock, lz>>

\* the rows that differ from the frame before in at most MaxChanged pixels
NearRows ==
  {pixels \in WideRows :
     log # <<>> => Cardinality({k \in 1..RunWidth :
                                 pixels[k] # log[Len(log)].pixels[k]}) <= MaxChanged}

EncodePFrameRow ==
  /\ enc.buffer # <<>>
  /\ enc.frameCount < MaxRunFrames
  /\ \E pixels \in NearRows :
       /\ enc' = encodePFrame(enc, pixels, FrameTimestamp(enc.frameCount))
       /\ log' = Append(log, RunRecord("encodePFrame", enc, enc', pixels))
  /\ UNCHANGED <<sent, trace, layout, file, dec, ret, src, bi, calls, timers, clock, lz>>

NextRun == WriteHeader \/ EncodeKeyframeRow \/ EncodePFrameRow

SpecRun == InitRun /\ [][NextRun]_vars

\* how many of the samples are equal to the sample at the same place in ref
Repeats(samples, ref) ==
  Cardinality({k \in 1..Len(samples) : k <= Len(ref) /\ samples[k] = ref[k]})

\* the samples before each sample of a keyframe's stream, which starts from
\* the value first
Shifted(first, samples) == SubSeq(<<first>> \o samples, 1, Len(samples))

\* the pixels of an RGB call that repeat the pixel before them (keyframe)
\* or the reference frame's pixel (P-frame)
RgbRepeats(c) ==
  IF c.op = "encodeKeyframe" \/ c.before.prevFrame = <<>>
  THEN Repeats(c.pixels, Shifted(OpaqueBlack, c.pixels))
  ELSE Repeats(c.pixels, c.before.prevFrame)

\* C21: RUN/SKIP bound.  Every byte the encoder writes as a RUN or SKIP
\* opcode is in 0xC0..0xFD, a count of 1 to 62, and in an RGB frame the
\* counts add up to the number of repeated (unchanged) pixels, so the 63rd
\* pixel of a stretch is counted by a new opcode.
RunSkipBound ==
  \A i \in 1..Len(log) :
     /\ \A j \in 1..Len(log[i].runs) : log[i].runs[j] \in 192..253
     /\ ~log[i].before.isYuvMode =>
          SumSeq([j \in 1..Len(log[i].runs) |-> log[i].runs[j] - 191])
            = RgbRepeats(log[i])

\* a keyframe row of RunWidth black pixels, all equal to the start pixel,
\* then the same row as a P-frame: each was written as a RUN (SKIP) of 62
\* followed by a new opcode for the remaining two pixels
RunSkipBoundWitness ==
  /\ Len(log) = 2
  /\ log[1].op = "encodeKeyframe" /\ log[2].op = "encodePFrame"
  /\ ~log[1].before.isYuvMode
  /\ log[1].pixels = Row(Palette.K, 0, Palette.K, RunWidth)
  /\ log[2].pixels = log[1].pixels
  /\ log[1].runs = <<253, 193>>
  /\ log[2].runs = <<253, 193>>

(***************************************************************************)
(* Specification SpecPlanes: the session of Spec in the four YUV           *)
(* colorspaces, with and without the HAS_ALPHA flag.                       *)
(***************************************************************************)
YuvColorspaces == {QOV_COLORSPACE_YUV420, QOV_COLORSPACE_YUV422,
                   QOV_COLORSPACE_YUV444, QOV_COLORSPACE_YUVA420}

AlphaFlags == {QOV_FLAG_HAS_INDEX, QOV_FLAG_HAS_INDEX + QOV_FLAG_HAS_ALPHA}

InitPlanes ==
  /\ enc \in {NewEncoder(Width, 1, f, c, FALSE) : c \in YuvColorspaces,
                                                  f \in AlphaFlags}
  /\ sent = <<>> /\ trace = <<>> /\ layout = <<>> /\ file = <<>>
  /\ dec = NewDecoder
  /\ ret = [frameIndex |-> -1, result |-> NullResult]
  /\ src = FileDataSource(<<>>)
  /\ bi = IdleIndex
  /\ calls = <<>> /\ timers = <<>> /\ clock = 0 /\ log = <<>>
  /\ lz = NoBlock

SpecPlanes == InitPlanes /\ [][Next]_vars

\* the sample counts of the planes a frame of the colorspace holds
PlaneSizes(width, height, colorspace) ==
  <<width * height, UvSize(width, height, colorspace),
    UvSize(width, height, colorspace)>>
  \o (IF colorspace = QOV_COLORSPACE_YUVA420 THEN <<width * height>> ELSE <<>>)

\* C22: YUV plane layout.  Every YUV frame the encoder writes holds the
\* planes Y, U, V, three in colorspaces 0x10-0x12 and a fourth A plane in
\* 0x13, each of its expected number of samples; the decoder reads as many
\* planes as the encoder wrote and is left with exactly the 8-byte end
\* marker, and the planes of a keyframe come out as the encoder had them.
PlaneLayout ==
  enc.isYuvMode =>
     /\ \A i \in 1..Len(trace) :
           [k \in 1..Len(trace[i].planes) |-> Len(trace[i].planes[k])]
             = PlaneSizes(enc.width, enc.height, enc.colorspace)
     /\ Returned =>
          LET planes == trace[ret.frameIndex + 1].planes
          IN  /\ Len(dec.planeIndex) = Len(planes)
              /\ dec.planeRest = EndMarker
              /\ trace[ret.frameIndex + 1].isKeyframe =>
                   /\ dec.prevYPlane = planes[1]
                   /\ dec.prevUPlane = planes[2]
                   /\ dec.prevVPlane = planes[3]
                   /\ Len(planes) = 4 => dec.prevAPlane = planes[4]

(***************************************************************************)
(* Specification SpecNew: an application constructs an encoder with valid  *)
(* and invalid arguments, writes the header and finishes.                  *)
(***************************************************************************)
\* <<width, height>>: in range, zero, and one past the 16-bit limit
Dimensions == {<<3, 1>>, <<1, 65535>>, <<65535, 1>>, <<0, 1>>, <<3, 0>>,
               <<65536, 1>>, <<1, 65536>>}

FrameRateDens == {0, 1}

\* no encoder has been constructed
NoEncoder == [buffer |-> <<>>]

InitNew ==
  /\ enc = NoEncoder
  /\ sent = <<>> /\ trace = <<>> /\ layout = <<>> /\ file = <<>>
  /\ dec = NewDecoder
  /\ ret = [frameIndex |-> -1, result |-> NullResult]
  /\ src = FileDataSource(<<>>)
  /\ bi = IdleIndex
  /\ calls = <<>> /\ timers = <<>> /\ clock = 0 /\ log = <<>>
  /\ lz = NoBlock

\* new QovEncoder(...): the call is logged with its arguments and outcome
Construct ==
  /\ log = <<>>
  /\ \E d \in Dimensions, den \in FrameRateDens, c \in Configs :
       /\ enc' = QovEncoder(d[1], d[2], 30, den, QOV_FLAG_HAS_INDEX, c[1], c[2])
       /\ log' = <<[op |-> "new", width |-> d[1], height |-> d[2],
                    frameRateDen |-> den, result |-> "ok"]>>
  /\ UNCHANGED <<sent, trace, layout, file, dec, ret, src, bi, calls, timers, clock, lz>>

WriteHeaderNew == log # <<>> /\ WriteHeader

FinishNew == log # <<>> /\ Finish

NextNew == Construct \/ WriteHeaderNew \/ FinishNew

SpecNew == InitNew /\ [][NextNew]_vars

ValidArguments(c) ==
  /\ c.width \in 1..65535 /\ c.height \in 1..65535
  /\ c.frameRateDen # 0

\* C23: encoder construction validates its arguments.  A construction with
\* width or height outside 1..65535 or with frame rate denominator 0 fails
\* with InvalidArgument and leaves no encoder.
ConstructionValidated ==
  \A i \in 1..Len(log) :
     (log[i].op = "new" /\ ~ValidArguments(log[i])) =>
        /\ log[i].result = "InvalidArgument"
        /\ enc = NoEncoder

(***************************************************************************)
(* Specification SpecHeader: a streaming decoder over a file whose 24-byte *)
(* header is well-formed or has a wrong magic, version, frame rate         *)
(* denominator or colorspace; the application calls parseHeader and        *)
(* decodeFrame.                                                            *)
(***************************************************************************)
QOV_COLORSPACE_LINEAR == 2
QOV_COLORSPACE_LINEAR_A == 3

KnownColorspaces ==
  {QOV_COLORSPACE_SRGB, QOV_COLORSPACE_SRGBA, QOV_COLORSPACE_LINEAR,
   QOV_COLORSPACE_LINEAR_A, QOV_COLORSPACE_YUV420, QOV_COLORSPACE_YUV422,
   QOV_COLORSPACE_YUV444, QOV_COLORSPACE_YUVA420}

\* the file whole with the last magic byte, the version, the frame rate
\* denominator and the colorspace of its header overwritten
HeaderFile(whole, magic3, version, den, colorspace) ==
  <<113, 111, 118, magic3, version>> \o SubArray(whole, 5, 12)
  \o U16Bytes(den) \o SubArray(whole, 14, 22) \o <<colorspace>>
  \o SubArray(whole, 23, Len(whole))

\* a two-frame sRGB file under every such header
HeaderFiles ==
  With(FinishedFile(QOV_COLORSPACE_SRGB, FALSE, <<<<TRUE, 1>>, <<FALSE, 3>>>>),
       LAMBDA whole :
         {HeaderFile(whole, m, v, den, c) :
            m \in {102, 105}, v \in 0..3, den \in {0, 1}, c \in {0, 2, 5, 16, 32}})

InitHeader ==
  /\ enc = NewEncoder(Width, 1, QOV_FLAG_HAS_INDEX, QOV_COLORSPACE_SRGB, FALSE)
  /\ sent = <<>> /\ trace = <<>> /\ layout = <<>>
  /\ file \in HeaderFiles
  /\ dec = NewDecoder
  /\ ret = [frameIndex |-> -1, result |-> NullResult]
  /\ src = FileDataSource(file)
  /\ bi = IdleIndex
  /\ calls = <<>> /\ timers = <<>> /\ clock = 0 /\ log = <<>>
  /\ lz = NoBlock

\* parseHeader returned the header
HeaderResult == [NullResult EXCEPT !.kind = "header"]

\* the application calls parseHeader
ParseHeader ==
  /\ ~dec.decoding
  /\ \E r \in {parseHeader(dec, FileRead(file, 0, 24))} :
       /\ dec' = r.dec
       /\ ret' = [frameIndex |-> -1,
                  result |-> IF r.ok THEN HeaderResult ELSE ErrorResult]
  /\ UNCHANGED <<enc, sent, trace, layout, file, src, bi, calls, timers, clock, log, lz>>

NextHeader == ParseHeader \/ DecodeFrame

SpecHeader == InitHeader /\ [][NextHeader]_vars

\* the header bytes are what the format allows
ValidHeader(data) ==
  /\ SubArray(data, 0, 4) = <<113, 111, 118, 102>>
  /\ At(data, 4) \in {1, 2}
  /\ ReadU16(data, 12) # 0
  /\ At(data, 22) \in KnownColorspaces

\* C24: parseHeader validation.  The decoder holds a parsed header only if
\* the file's magic is 'qovf', its version 1 or 2, its frame rate
\* denominator not 0 and its colorspace a known code; on any other file
\* every parseHeader and decodeFrame call ends in an error and none returns
\* a header or a frame.
HeaderValidation ==
  /\ dec.headerParsed => ValidHeader(file)
  /\ ~ValidHeader(file) => ret.result.kind \in {"null", "error"}

(***************************************************************************)
(* Specification SpecStats: the session of Spec in one RGB and one YUV     *)
(* colorspace; the application also asks the decoder for the file          *)
(* statistics.                                                             *)
(***************************************************************************)
\* getFileStats: null (ok is FALSE) until header and index are there; of the
\* statistics, the chunk count, the keyframe indices and the duration
getFileStats(d) ==
  IF ~d.headerParsed \/ ~d.indexBuilt
  THEN [ok |-> FALSE, chunks |-> 0, keyframeIndices |-> <<>>, duration |-> 0]
  ELSE [ok |-> TRUE, chunks |-> Len(d.chunks),
        keyframeIndices |-> d.keyframeIndices,
        duration |-> IF d.chunks # <<>> THEN d.chunks[Len(d.chunks)].timestamp
                     ELSE 0]

InitStats ==
  /\ enc \in {NewEncoder(Width, 1, f, c, FALSE) :
                c \in {QOV_COLORSPACE_SRGB, QOV_COLORSPACE_YUV420}, f \in EncFlags}
  /\ sent = <<>> /\ trace = <<>> /\ layout = <<>> /\ file = <<>>
  /\ dec = NewDecoder
  /\ ret = [frameIndex |-> -1, result |-> NullResult]
  /\ src = FileDataSource(<<>>)
  /\ bi = IdleIndex
  /\ calls = <<>> /\ timers = <<>> /\ clock = 0 /\ log = <<>>
  /\ lz = NoBlock

\* the application calls getFileStats; log holds what the last call returned
GetFileStats ==
  /\ file # <<>>
  /\ ~dec.decoding
  /\ log' = <<[op |-> "getFileStats", stats |-> getFileStats(dec)]>>
  /\ UNCHANGED <<enc, sent, trace, layout, file, dec, ret, src, bi, calls, timers, clock, lz>>

NextStats ==
  WriteHeader \/ EncodeKeyframe \/ EncodePFrame \/ Finish \/ DecodeFrame
  \/ GetFileStats

SpecStats == InitStats /\ [][NextStats]_vars

\* the timestamp the last frame was encoded with, 0 without frames
LastFrameTimestamp ==
  IF sent = <<>> THEN 0 ELSE FrameTimestamp(Len(sent) - 1)

\* C27: duration.  The duration getFileStats reports is the timestamp of
\* the last frame chunk of the file.
DurationIsLastFrame ==
  \A i \in 1..Len(log) :
     (log[i].op = "getFileStats" /\ log[i].stats.ok) =>
        log[i].stats.duration = LastFrameTimestamp

(***************************************************************************)
(* Specification SpecLz4Blocks: lz4Decompress is handed blocks that no     *)
(* compressor wrote: every byte string of up to MaxBlockLen bytes over     *)
(* tokens with and without length extensions and small offsets.            *)
(***************************************************************************)
MaxBlockLen == 4

\* tokens 0x00 (match of 4), 0x01 (match of 5), 0x0F (match length
\* extended), 0x10 (one literal) and 0xF0 (literal length extended); as
\* offset bytes 0, 1, 15, 16 and 240
BlockBytes == {0, 1, 15, 16, 240}

Lz4Blocks == UNION {[1..n -> BlockBytes] : n \in 1..MaxBlockLen}

OutputSizes == {4, 8}

InitLz4Blocks ==
  /\ enc = NewEncoder(Width, 1, 0, QOV_COLORSPACE_SRGB, TRUE)
  /\ sent = <<>> /\ trace = <<>> /\ layout = <<>> /\ file = <<>>
  /\ dec = NewDecoder
  /\ ret = [frameIndex |-> -1, result |-> NullResult]
  /\ src = FileDataSource(<<>>)
  /\ bi = IdleIndex
  /\ calls = <<>> /\ timers = <<>> /\ clock = 0 /\ log = <<>>
  /\ \E b \in Lz4Blocks : lz = [NoBlock EXCEPT !.pc = "received", !.block = b]

\* lz4Decompress(block, outputSize): it always returns an array
DecompressBlock ==
  /\ lz.pc = "received"
  /\ \E n \in OutputSizes :
        lz' = [lz EXCEPT !.pc = "restored", !.output = lz4Decompress(lz.block, n)]
  /\ UNCHANGED <<enc, sent, trace, layout, file, dec, ret, src, bi, calls, timers,
                 clock, log>>

SpecLz4Blocks == InitLz4Blocks /\ [][DecompressBlock]_vars

\* the block format read strictly: every length extension, literal and
\* offset lies inside the input and every offset points into the output
\* produced so far
RECURSIVE Lz4WellFormed(_, _, _)
Lz4WellFormed(input, inPos, outPos) ==
  IF ~(inPos < Len(input)) THEN TRUE
  ELSE LET token  == At(input, inPos)
           lit    == IF token \div 16 = 15 THEN Lz4ReadLen(input, inPos + 1, 15)
                     ELSE <<token \div 16, inPos + 1>>
           inPos1 == lit[2] + lit[1]
           offset == At(input, inPos1) + 256 * At(input, inPos1 + 1)
           mat    == IF token % 16 = 15 THEN Lz4ReadLen(input, inPos1 + 2, 19)
                     ELSE <<(token % 16) + 4, inPos1 + 2>>
       IN  /\ lit[2] <= Len(input)
           /\ inPos1 <= Len(input)
           /\ inPos1 < Len(input) =>
                /\ inPos1 + 2 <= Len(input)
                /\ offset <= outPos + lit[1]
                /\ mat[2] <= Len(input)
                /\ Lz4WellFormed(input, mat[2], outPos + lit[1] + mat[1])

\* C25: LZ4 decompress rejects corrupt input.  lz4Decompress returns an
\* output only for a block in which every match offset points into the
\* output produced so far and every literal and length extension lies
\* inside the input; for every other block it fails.
Lz4RejectsCorrupt ==
  lz.pc = "restored" => Lz4WellFormed(lz.block, 0, 0)

(***************************************************************************)
(* Specification SpecShort: a streaming decoder over a one-frame file      *)
(* whose keyframe chunk holds an arbitrary short opcode stream in front of *)
(* the end marker.                                                         *)
(***************************************************************************)
MaxOpcodes == 3

\* RUN of 1 and of 2, a DIFF, the first byte of a literal and 0xFF, which
\* is RGBA in an RGB stream and no opcode of a plane stream
OpcodeBytes == {192, 193, 127, 254, 255}

OpcodeStreams == UNION {[1..n -> OpcodeBytes] : n \in 0..MaxOpcodes}

\* header, SYNC, a KEYFRAME chunk with the given opcodes and the end marker,
\* END; the header says one frame
OneFrameFile(colorspace, ops) ==
  LET e == writeHeader(NewEncoder(Width, 1, 0, colorspace, FALSE))
      isYuv == e.isYuvMode
  IN  PatchU32(writeEnd(writeSync(e.buffer, 0, 0)
                        \o ChunkHeader(QOV_CHUNK_KEYFRAME,
                                       IF isYuv THEN QOV_CHUNK_FLAG_YUV ELSE 0,
                                       Len(ops) + 8, 0)
                        \o ops \o EndMarker), 14, 1)

InitShort ==
  /\ enc \in {NewEncoder(Width, 1, 0, c, FALSE) :
                c \in {QOV_COLORSPACE_SRGB, QOV_COLORSPACE_YUV444}}
  /\ sent = <<>> /\ trace = <<>> /\ layout = <<>>
  /\ \E ops \in OpcodeStreams :
       /\ file = OneFrameFile(enc.colorspace, ops)
       /\ log = <<[op |-> "file", ops |-> ops]>>
  /\ dec = NewDecoder
  /\ ret = [frameIndex |-> -1, result |-> NullResult]
  /\ src = FileDataSource(file)
  /\ bi = IdleIndex
  /\ calls = <<>> /\ timers = <<>> /\ clock = 0
  /\ lz = NoBlock

SpecShort == InitShort /\ [][DecodeFrame]_vars

\* the bytes an opcode takes in an RGB keyframe or in a plane stream; 0 for
\* a byte that is no opcode
OpcodeSize(b, yuv) ==
  IF b < 128 THEN 1
  ELSE IF b < 192 THEN (IF yuv THEN 1 ELSE 2)
  ELSE IF b < 254 THEN 1
  ELSE IF b = 254 THEN (IF yuv THEN 2 ELSE 4)
  ELSE (IF yuv THEN 0 ELSE 5)

\* the opcodes read strictly from pos on until size samples are produced:
\* the position behind them, or -1 if a byte is no opcode or the stream
\* ends first
RECURSIVE StrictRead(_, _, _, _, _)
StrictRead(ops, pos, px, size, yuv) ==
  IF px >= size THEN pos
  ELSE IF pos >= Len(ops) THEN -1
  ELSE LET b == At(ops, pos)
           n == OpcodeSize(b, yuv)
       IN  IF n = 0 \/ pos + n > Len(ops) THEN -1
           ELSE StrictRead(ops, pos + n,
                           px + (IF b >= 192 /\ b < 254 THEN b - 191 ELSE 1),
                           size, yuv)

\* the stream holds known opcodes for every pixel (every sample of the
\* three planes of a 4:4:4 frame)
StreamComplete(ops, size, yuv) ==
  IF ~yuv THEN StrictRead(ops, 0, 0, size, FALSE) # -1
  ELSE LET y == StrictRead(ops, 0, 0, size, TRUE)
           u == IF y = -1 THEN -1 ELSE StrictRead(ops, y, 0, size, TRUE)
           v == IF u = -1 THEN -1 ELSE StrictRead(ops, u, 0, size, TRUE)
       IN  v # -1

\* C26: short or unknown opcode streams are errors.  decodeFrame returns a
\* frame only if the chunk's opcode stream holds known opcodes for all
\* width * height pixels (in YUV mode for every sample of every plane).
ShortStreamFails ==
  Returned => StreamComplete(log[1].ops, enc.width * enc.height, enc.isYuvMode)

(***************************************************************************)
(* Specification SpecPair: an sRGB encoder of width 1 and height 2 that    *)
(* encodes keyframes of two pixels (scenario S2).                          *)
(***************************************************************************)
MaxPairFrames == 2

\* the frames of two pixels over black, its DIFF and LUMA neighbours and a
\* half-transparent colour
PixelPairs == [1..2 -> {Palette.K, Palette.D, Palette.L, Palette.A}]

InitPair ==
  /\ enc \in {NewEncoder(1, 2, f, QOV_COLORSPACE_SRGB, FALSE) : f \in EncFlags}
  /\ sent = <<>> /\ trace = <<>> /\ layout = <<>> /\ file = <<>>
  /\ dec = NewDecoder
  /\ ret = [frameIndex |-> -1, result |-> NullResult]
  /\ src = FileDataSource(<<>>)
  /\ bi = IdleIndex
  /\ calls = <<>> /\ timers = <<>> /\ clock = 0 /\ log = <<>>
  /\ lz = NoBlock

\* encodeKeyframe on two pixels; the log keeps the pixels and the bytes of
\* the KEYFRAME chunk behind its header (the chunk follows the 18-byte SYNC
\* chunk and has a 10-byte header)
EncodeKeyframePair ==
  /\ enc.buffer # <<>>
  /\ enc.frameCount < MaxPairFrames
  /\ \E pixels \in PixelPairs :
       /\ enc' = encodeKeyframe(enc, pixels, FrameTimestamp(enc.frameCount))
       /\ log' = Append(log, [op |-> "encodeKeyframe", pixels |-> pixels,
                              body |-> SubArray(enc'.buffer, Len(enc.buffer) + 28,
                                                Len(enc'.buffer))])
  /\ UNCHANGED <<sent, trace, layout, file, dec, ret, src, bi, calls, timers, clock, lz>>

NextPair == WriteHeader \/ EncodeKeyframePair

SpecPair == InitPair /\ [][NextPair]_vars

\* the frame of scenario S2: (0,0,0,255) then (1,1,1,255)
BlackThenStep == <<Palette.K, Palette.D>>

\* C28 as stated: the keyframe body of the frame (0,0,0,255), (1,1,1,255)
\* is 0xC0 (RUN 1), then 0x55 (DIFF), then the 8-byte end marker.
SingleDiffStepAs55 ==
  \A i \in 1..Len(log) :
     log[i].pixels = BlackThenStep => log[i].body = <<192, 85>> \o EndMarker

\* C28, amended: the keyframe body of the frame (0,0,0,255), (1,1,1,255)
\* is 0xC0 (RUN 1), then 0x7F (DIFF with dr = dg = db = +1: 0x40 with the
\* three differences stored as two-bit fields with a bias of 2), then the
\* 8-byte end marker.
SingleDiffStep ==
  \A i \in 1..Len(log) :
     log[i].pixels = BlackThenStep => log[i].body = <<192, 127>> \o EndMarker

\* the frame of S2 has been encoded as the only frame of a stream
SingleDiffStepWitness ==
  /\ Len(log) = 1
  /\ log[1].pixels = BlackThenStep
  /\ Len(log[1].body) = 10


(***************************************************************************)
(* Specification SpecGuard: decodeFrame calls issued concurrently, as in   *)
(* SpecConc, over downloads that make calls throw: a file with a wrong     *)
(* magic, a file that ends inside the payload of its last frame, and a     *)
(* server that does not announce the size, so that the source has no       *)
(* buffer to read from until the download is complete.                     *)
(***************************************************************************)
\* the chunks of kind type in a whole file
ChunksOfType(whole, type) ==
  With(FreshDecoder(whole).chunks, LAMBDA chunks :
       {chunks[k] : k \in {j \in 1..Len(chunks) : chunks[j].type = type}})

\* the file cut inside the payload of its last chunk of kind type
CutInLast(whole, type) ==
  With(ChunksOfType(whole, type), LAMBDA found :
       SubArray(whole, 0,
                (CHOOSE c \in found : \A o \in found : o.offset <= c.offset).offset + 11))

\* a keyframe and a P-frame: whole, cut inside the P-frame, and with the
\* magic "qovi"
GuardFiles ==
  With(FinishedFile(QOV_COLORSPACE_SRGB, FALSE, <<<<TRUE, 1>>, <<FALSE, 3>>>>),
       LAMBDA whole : {whole, CutInLast(whole, QOV_CHUNK_PFRAME),
                       [whole EXCEPT ![4] = 105]})

InitGuard ==
  /\ enc = NewEncoder(Width, 1, QOV_FLAG_HAS_INDEX, QOV_COLORSPACE_SRGB, FALSE)
  /\ sent = <<>> /\ trace = <<>> /\ layout = <<>>
  /\ file \in GuardFiles
  /\ src \in {UrlDataSource(file, TRUE), UrlDataSource(file, FALSE)}
  /\ bi = IdleIndex
  /\ dec = NewDecoder
  /\ ret = [frameIndex |-> -1, result |-> NullResult]
  /\ calls = <<>> /\ timers = <<>> /\ clock = 0 /\ log = <<>>
  /\ lz = NoBlock

SpecGuard == InitGuard /\ [][NextConc]_vars

\* the calls that end in this step
Ending ==
  {k \in 1..Len(calls') : calls'[k].pc = "done"
                          /\ (k <= Len(calls) => calls[k].pc # "done")}

\* C30: guard release.  Whenever a decodeFrame call ends, by returning a
\* frame, by returning no frame for an index out of range or by throwing,
\* the decoding guard is free at that moment.
GuardRelease == [][Ending # {} => ~dec'.decoding]_vars

\* the results of the calls that have ended
Endings == {calls[k].result.kind : k \in {j \in 1..Len(calls) : calls[j].pc = "done"}}

\* one call has thrown, one has returned a frame and one has returned no
\* frame, and the guard is free
GuardReleaseWitness ==
  /\ Endings = {"error", "frame", "null"}
  /\ ~dec.decoding

(***************************************************************************)
(* Specification SpecRecover: decodeFrame calls, each awaited before the   *)
(* next, on a streaming decoder over a completed download of a file that   *)
(* ends inside the payload of one of its frames, so that reading that      *)
(* frame throws.  log holds one record per call: the frame asked for,      *)
(* lastDecodedFrameIndex when the call was made, and the result.           *)
(***************************************************************************)
MaxAwaited == 4

\* keyframe, P-frame, keyframe
RecoverSession == <<<<TRUE, 1>>, <<FALSE, 3>>, <<TRUE, 2>>>>

\* the whole file and the file cut inside the payload of its last keyframe
\* and of its P-frame
RecoverFiles ==
  With(FinishedFile(QOV_COLORSPACE_SRGB, FALSE, RecoverSession), LAMBDA whole :
       {whole, CutInLast(whole, QOV_CHUNK_KEYFRAME), CutInLast(whole, QOV_CHUNK_PFRAME)})

InitRecover ==
  /\ enc = NewEncoder(Width, 1, QOV_FLAG_HAS_INDEX, QOV_COLORSPACE_SRGB, FALSE)
  /\ sent = [k \in 1..Len(RecoverSession) |-> FramePool(Width)[RecoverSession[k][2]]]
  /\ trace = <<>> /\ layout = <<>>
  /\ file \in RecoverFiles
  /\ src = DownloadDone(UrlDataSource(file, TRUE))
  /\ bi = IdleIndex
  /\ dec = NewDecoder
  /\ ret = [frameIndex |-> -1, result |-> NullResult]
  /\ calls = <<>> /\ timers = <<>> /\ clock = 0 /\ log = <<>>
  /\ lz = NoBlock

\* "await decodeFrame(frameIndex)": nothing of the download is outstanding,
\* so the call runs to its end
AwaitDecodeFrame ==
  /\ Len(log) < MaxAwaited
  /\ ~dec.decoding
  /\ \E frameIndex \in 0..(Len(RecoverSession) - 1) :
       \E r \in {RunCall(dec, src, NewCall(frameIndex))} :
          /\ r.call.pc = "done"
          /\ dec' = r.dec
          /\ ret' = [frameIndex |-> frameIndex, result |-> r.call.result]
          /\ log' = Append(log, [frameIndex |-> frameIndex,
                                 last |-> dec.lastDecodedFrameIndex,
                                 result |-> r.call.result])
  /\ UNCHANGED <<enc, sent, trace, layout, file, src, bi, calls, timers, clock, lz>>

SpecRecover == InitRecover /\ [][AwaitDecodeFrame]_vars

\* call n came after a call that threw
AfterFailure(n) == \E m \in 1..(n - 1) : log[m].result.kind = "error"

\* C29: recovery after a failed decode.  A decodeFrame(i) call that comes
\* after a call that threw, with i other than lastDecodedFrameIndex + 1,
\* and returns a frame, returns the pixels of frame i.
RecoversAfterFailure ==
  \A n \in 1..Len(log) :
     (AfterFailure(n) /\ log[n].result.kind = "frame"
                      /\ log[n].frameIndex # log[n].last + 1)
        => log[n].result.pixels = sent[log[n].frameIndex + 1]

(***************************************************************************)
(* Specification SpecStarve: as SpecConc, but the application goes on      *)
(* issuing decodeFrame calls for ever: the record of a call that has ended *)
(* is given to a new call, so that at most MaxUnfinished calls are         *)
(* unfinished at a time while any number of calls is issued.  log holds    *)
(* the place of the record given away last.  The download proceeds and     *)
(* timers that are set fire; nothing obliges the application to call.      *)
(***************************************************************************)
MaxUnfinished == 2

InitStarve ==
  /\ InitConc
  /\ file = FinishedFile(QOV_COLORSPACE_SRGB, FALSE, <<<<TRUE, 1>>, <<FALSE, 3>>>>)

\* the places a new call's record can go: behind the others, or where a
\* call has ended once MaxUnfinished calls were issued
FreePlaces ==
  IF Len(calls) < MaxUnfinished THEN {Len(calls) + 1}
  ELSE {k \in 1..Len(calls) : calls[k].pc = "done"}

\* decodeFrame for one of the file's two frames is called and not awaited
IssueOne ==
  /\ \E k \in FreePlaces : \E frameIndex \in 0..1 :
       \E r \in {RunCall(dec, src, NewCall(frameIndex))} :
          /\ dec' = r.dec
          /\ calls' = IF k > Len(calls) THEN Append(calls, r.call)
                      ELSE [calls EXCEPT ![k] = r.call]
          /\ timers' = IF r.call.pc = "guard" THEN Append(timers, k) ELSE timers
          /\ log' = IF k > Len(calls) THEN log ELSE <<k>>
  /\ UNCHANGED <<enc, sent, trace, layout, file, ret, src, bi, clock, lz>>

NextStarve == Deliver \/ DownloadComplete \/ IssueOne \/ PollGuard \/ WakeCall

SpecStarve ==
  /\ InitStarve /\ [][NextStarve]_vars
  /\ WF_vars(Deliver) /\ WF_vars(DownloadComplete)
  /\ WF_vars(PollGuard) /\ WF_vars(WakeCall)

\* call k is waiting for the guard
AtGuard(k) == k <= Len(calls) /\ calls[k].pc = "guard"

\* call k has returned or thrown
Ended(k) == k <= Len(calls) /\ calls[k].pc = "done"

\* C31: no starvation at the guard.  A decodeFrame call that is waiting for
\* the decoding guard eventually takes it and ends, however many calls are
\* issued after it.
NoStarvation == \A k \in 1..MaxUnfinished : AtGuard(k) ~> Ended(k)

\* the second call is still waiting for the guard while a call issued after
\* it, in the record of the first call, has taken the guard and returned a
\* frame
NoStarvationWitness ==
  /\ log = <<1>>
  /\ calls[1].pc = "done" /\ calls[1].result.kind = "frame"
  /\ calls[2].pc = "guard"

(***************************************************************************)
(* Specification SpecMix: one streaming decoder over a download under way, *)
(* on which the application calls buildIndex itself (once) and issues      *)
(* decodeFrame calls, in any order and without awaiting them.  buildIndex  *)
(* is a public method and takes no guard.                                  *)
(***************************************************************************)
InitMix ==
  /\ InitConc
  /\ file = FinishedFile(QOV_COLORSPACE_SRGB, FALSE, <<<<TRUE, 1>>, <<FALSE, 3>>>>)

NextMix ==
  \/ Deliver \/ DownloadComplete
  \/ CallBuildIndex \/ WakeHeader \/ WakeScan
  \/ IssueCall \/ PollGuard \/ WakeCall

SpecMix == InitMix /\ [][NextMix]_vars

IsPrefix(s, t) == Len(s) <= Len(t) /\ \A k \in 1..Len(s) : s[k] = t[k]

\* the frame chunks among the descriptors
FrameDescriptors(chunks) ==
  {k \in 1..Len(chunks) : chunks[k].frameIndex # -1}

\* C32: the chunk index is append-only.  At every moment the decoder's
\* chunk descriptors are a prefix of the file's chunk sequence, one
\* descriptor per chunk in file order, and the frame count is the number of
\* frame chunks among them, for every interleaving of buildIndex and
\* decodeFrame calls.
IndexAppendOnly ==
  /\ IsPrefix(dec.chunks, FreshDecoder(file).chunks)
  /\ dec.totalFrames = Cardinality(FrameDescriptors(dec.chunks))

(***************************************************************************)
(* The full-file decoder (qov-decoder.ts): it holds the whole file in      *)
(* this.data and reads it through this.pos.  A byte read behind the end of *)
(* the data is undefined, which the shifts and ORs of readU16 / readU32    *)
(* turn into 0.                                                            *)
(***************************************************************************)
\* decodeHeader's two checks: the magic "qovf" and version 1 or 2
HeaderAccepted(data) ==
  /\ SubArray(data, 0, 4) = <<113, 111, 118, 102>>
  /\ At(data, 4) \in {1, 2}

\* the passes of a chunk loop that are followed: three times the chunks of
\* the longest file of MaxFrames frames (a position that went wrong can
\* become negative, from where the loop advances one empty header a pass)
MaxPasses == 24

\* readChunkHeader with this.pos = pos: the header read and this.pos after
\* it; uncompressedSize is -1 for undefined
readChunkHeader(data, pos) ==
  LET use32 == At(data, 4) >= 2
      flags == At(data, pos + 1)
      sized == pos + (IF use32 THEN 10 ELSE 8)
      isCompressed == HasFlag(flags, QOV_CHUNK_FLAG_COMPRESSED)
  IN  [chunkType |-> At(data, pos), chunkFlags |-> flags,
       chunkSize |-> IF use32 THEN ReadU32(data, pos + 2) ELSE ReadU16(data, pos + 2),
       timestamp |-> ReadU32(data, IF use32 THEN pos + 6 ELSE pos + 4),
       uncompressedSize |-> IF isCompressed THEN ReadU32(data, sized) ELSE -1,
       pos |-> IF isCompressed THEN sized + 4 ELSE sized]

\* the loop of getFileStats from this.pos = pos on: [ok, chunks,
\* keyframeIndices, frames, duration].  fuel counts the passes left; ok is
\* FALSE when the loop is still running after MaxPasses passes.
RECURSIVE StatsLoop(_, _, _, _, _, _, _)
StatsLoop(data, pos, chunks, keyframeIndices, frameIndex, lastTimestamp, fuel) ==
  IF ~(pos < Len(data))
  THEN [ok |-> TRUE, chunks |-> chunks, keyframeIndices |-> keyframeIndices,
        frames |-> frameIndex, duration |-> lastTimestamp]
  ELSE IF fuel = 0
  THEN [ok |-> FALSE, chunks |-> chunks, keyframeIndices |-> keyframeIndices,
        frames |-> frameIndex, duration |-> lastTimestamp]
  ELSE With(readChunkHeader(data, pos), LAMBDA h :
    LET headerSize == IF At(data, 4) >= 2 THEN 10 ELSE 8
        isCompressed == HasFlag(h.chunkFlags, QOV_CHUNK_FLAG_COMPRESSED)
        chunks2 == Append(chunks, [type |-> h.chunkType, offset |-> pos,
                                   size |-> h.chunkSize + headerSize,
                                   timestamp |-> h.timestamp,
                                   isCompressed |-> isCompressed])
        isKey   == h.chunkType = QOV_CHUNK_KEYFRAME
        isFrame == h.chunkType \in {QOV_CHUNK_KEYFRAME, QOV_CHUNK_PFRAME, 3}
        keys2   == IF isKey THEN Append(keyframeIndices, frameIndex)
                   ELSE keyframeIndices
        frames2 == IF isFrame THEN frameIndex + 1 ELSE frameIndex
        last2   == Max(lastTimestamp, h.timestamp)
        entryCount == ReadU32(data, h.pos)
    IN  IF h.chunkType = QOV_CHUNK_INDEX
        THEN StatsLoop(data, h.pos + 4 + 16 * Max(entryCount, 0), chunks2, keys2,
                       frames2, last2, fuel - 1)
        ELSE IF h.chunkType = QOV_CHUNK_END
        THEN [ok |-> TRUE, chunks |-> chunks2, keyframeIndices |-> keys2,
              frames |-> frames2, duration |-> last2]
        ELSE StatsLoop(data, h.pos + h.chunkSize, chunks2, keys2, frames2, last2,
                       fuel - 1))

\* QovDecoder.getFileStats on a decoder made for data; ok is FALSE when
\* decodeHeader throws or the loop does not end
FileStats(data) ==
  IF ~HeaderAccepted(data)
  THEN [ok |-> FALSE, chunks |-> <<>>, keyframeIndices |-> <<>>, frames |-> 0,
        duration |-> 0]
  ELSE StatsLoop(data, 24, <<>>, <<>>, 0, 0, MaxPasses)

(***************************************************************************)
(* Specification SpecWalk: an encoder session with compression on or off,  *)
(* and getFileStats of the full-file decoder on the finished file.         *)
(***************************************************************************)
InitWalk ==
  /\ enc \in {NewEncoder(Width, 1, f, c[1], c[2]) :
                c \in {<<QOV_COLORSPACE_SRGB, FALSE>>, <<QOV_COLORSPACE_SRGB, TRUE>>,
                       <<QOV_COLORSPACE_YUV420, TRUE>>},
                f \in EncFlags}
  /\ sent = <<>> /\ trace = <<>> /\ layout = <<>> /\ file = <<>>
  /\ dec = NewDecoder
  /\ ret = [frameIndex |-> -1, result |-> NullResult]
  /\ src = FileDataSource(<<>>)
  /\ bi = IdleIndex
  /\ calls = <<>> /\ timers = <<>> /\ clock = 0 /\ log = <<>>
  /\ lz = NoBlock

\* new QovDecoder(file).getFileStats(); log holds what it returned
WalkFile ==
  /\ file # <<>>
  /\ log = <<>>
  /\ log' = <<[op |-> "getFileStats", stats |-> FileStats(file)]>>
  /\ UNCHANGED <<enc, sent, trace, layout, file, dec, ret, src, bi, calls, timers, clock, lz>>

NextWalk == WriteHeader \/ EncodeKeyframe \/ EncodePFrame \/ Finish \/ WalkFile

SpecWalk == InitWalk /\ [][NextWalk]_vars

\* type, offset and size (header included) of the chunks the encoder wrote;
\* the END chunk is written with size 0, its end marker not counted
WrittenChunks ==
  [k \in 1..Len(layout) |->
     [type |-> layout[k].type, offset |-> layout[k].offset,
      size |-> IF layout[k].type = QOV_CHUNK_END THEN 10
               ELSE NextChunkStart(k) - layout[k].offset]]

\* type, offset and size of the reported chunks
ReportedChunks(stats) ==
  [k \in 1..Len(stats.chunks) |->
     [type |-> stats.chunks[k].type, offset |-> stats.chunks[k].offset,
      size |-> stats.chunks[k].size]]

\* C33: chunk walk.  getFileStats of the full-file decoder reports, for a
\* file the encoder finished, one entry per chunk the encoder wrote, with
\* its type and size, in order, and the frame count and keyframe indices of
\* the streaming decoder's buildIndex, also when chunks are compressed.
ChunkWalkExact ==
  \A i \in 1..Len(log) :
     /\ log[i].stats.ok
     /\ ReportedChunks(log[i].stats) = WrittenChunks
     /\ log[i].stats.frames = FreshDecoder(file).totalFrames
     /\ log[i].stats.keyframeIndices = FreshDecoder(file).keyframeIndices

(***************************************************************************)
(* Full-file decoder (qov-decoder.ts): decodeFrames.  The decoder object   *)
(* has the fields of the streaming decoder's; its frame buffers start all  *)
(* zero.  A read of b1 past the end of the data gives undefined, which     *)
(* fails "=== 0x00" and passes "(b1 & 0xc0) === 0x00".                     *)
(***************************************************************************)
\* decodeHeader: the decoder object after it
decodeHeader(data) ==
  With(parseHeader(NewDecoder, SubArray(data, 0, 24)).dec, LAMBDA d :
       [d EXCEPT !.prevFrame = Repeat(ZeroPixel, d.header.width * d.header.height),
                 !.currFrame = Repeat(ZeroPixel, d.header.width * d.header.height)])

\* decodeYuvPlaneKeyframe reading data from pos on: [plane, pos]
RECURSIVE decodeYuvPlaneKeyframe(_, _, _, _, _, _, _)
decodeYuvPlaneKeyframe(data, plane, size, pos, px, prevVal, index) ==
  IF ~(px < size) THEN [plane |-> plane, pos |-> pos]
  ELSE LET b1 == At(data, pos)
       IN  IF b1 >= 192 /\ b1 < 254
           THEN LET run == Min((b1 % 64) + 1, size - px)
                IN  decodeYuvPlaneKeyframe(data,
                      [i \in 1..Len(plane) |->
                         IF i > px /\ i <= px + run THEN prevVal ELSE plane[i]],
                      size, pos + 1, px + run, prevVal, index)
           ELSE IF b1 < 64
           THEN decodeYuvPlaneKeyframe(data, ArrSet(plane, px, index[b1]), size,
                                       pos + 1, px + 1, index[b1], index)
           ELSE IF b1 < 192
           THEN LET d == IF b1 < 128 THEN (b1 % 16) - 8 ELSE (b1 % 64) - 32
                    v == (prevVal + d) % 256
                IN  decodeYuvPlaneKeyframe(data, ArrSet(plane, px, v), size, pos + 1,
                                           px + 1, v, [index EXCEPT ![yuvHash(v)] = v])
           ELSE IF b1 = 254
           THEN LET v == At(data, pos + 1)
                IN  decodeYuvPlaneKeyframe(data, ArrSet(plane, px, v), size, pos + 2,
                                           px + 1, v, [index EXCEPT ![yuvHash(v)] = v])
           ELSE [plane |-> plane, pos |-> pos + 1]

\* decodeYuvPlanePFrame reading data from pos on; plane starts as the copy
\* of prevPlane: [plane, pos]
RECURSIVE decodeYuvPlanePFrame(_, _, _, _, _, _, _)
decodeYuvPlanePFrame(data, plane, prevPlane, size, pos, px, index) ==
  IF ~(px < size) THEN [plane |-> plane, pos |-> pos]
  ELSE LET b1 == At(data, pos)
       IN  IF b1 = 0 /\ pos < Len(data)
           THEN decodeYuvPlanePFrame(data, plane, prevPlane, size, pos + 3,
                                     px + ReadU16(data, pos + 1), index)
           ELSE IF b1 >= 192 /\ b1 < 254
           THEN decodeYuvPlanePFrame(data, plane, prevPlane, size, pos + 1,
                                     px + (b1 % 64) + 1, index)
           ELSE IF b1 < 64
           THEN decodeYuvPlanePFrame(data, ArrSet(plane, px, index[b1]), prevPlane,
                                     size, pos + 1, px + 1, index)
           ELSE IF b1 < 192
           THEN LET d == IF b1 < 128 THEN (b1 % 16) - 8 ELSE (b1 % 64) - 32
                    v == (At(prevPlane, px) + d) % 256
                IN  decodeYuvPlanePFrame(data, ArrSet(plane, px, v), prevPlane, size,
                                         pos + 1, px + 1,
                                         [index EXCEPT ![yuvHash(v)] = v])
           ELSE IF b1 = 254
           THEN LET v == At(data, pos + 1)
                IN  decodeYuvPlanePFrame(data, ArrSet(plane, px, v), prevPlane, size,
                                         pos + 2, px + 1,
                                         [index EXCEPT ![yuvHash(v)] = v])
           ELSE [plane |-> plane, pos |-> pos + 1]

\* decodeYuvKeyframeData / decodeYuvPFrameData and their FromBuffer forms:
\* the planes are read from data at pos on, converted, and the buffers swapped
decodeYuvFrameData(d, data, pos, isPFrame) ==
  LET ySize  == d.header.width * d.header.height
      uvSize == UvSize(d.header.width, d.header.height, d.header.colorspace)
      Plane(curr, prev, size, at) ==
        IF isPFrame THEN decodeYuvPlanePFrame(data, prev, prev, size, at, 0, EmptyYuvIndex)
        ELSE decodeYuvPlaneKeyframe(data, curr, size, at, 0, 0, EmptyYuvIndex)
      y == Plane(d.currYPlane, d.prevYPlane, ySize, pos)
      u == Plane(d.currUPlane, d.prevUPlane, uvSize, y.pos)
      v == Plane(d.currVPlane, d.prevVPlane, uvSize, u.pos)
      a == IF d.hasYuvAlpha /\ d.currAPlane # <<>>
           THEN Plane(d.currAPlane, d.prevAPlane, ySize, v.pos)
           ELSE [plane |-> d.currAPlane, pos |-> v.pos]
      pixels == YuvPlanesToRgba(y.plane, u.plane, v.plane,
                                IF d.hasYuvAlpha THEN a.plane ELSE <<>>,
                                d.header.width, d.header.height, d.header.colorspace)
  IN  [d EXCEPT !.prevYPlane = y.plane, !.currYPlane = d.prevYPlane,
                !.prevUPlane = u.plane, !.currUPlane = d.prevUPlane,
                !.prevVPlane = v.plane, !.currVPlane = d.prevVPlane,
                !.prevAPlane = IF d.hasYuvAlpha THEN a.plane ELSE @,
                !.currAPlane = IF d.hasYuvAlpha THEN d.prevAPlane ELSE @,
                !.prevFrame = pixels, !.currFrame = d.prevFrame]

\* the KEYFRAME and PFRAME cases of decodeFrames for the chunk whose header
\* h was read: the decoder after the frame is decoded.  The RGB decoders
\* run the loops of the streaming decoder's on the chunk's bytes.
decodeChunkData(d, data, h) ==
  LET isYuv        == HasFlag(h.chunkFlags, QOV_CHUNK_FLAG_YUV) \/ d.isYuvMode
      isCompressed == HasFlag(h.chunkFlags, QOV_CHUNK_FLAG_COMPRESSED)
  IN  With(IF isCompressed
           THEN lz4Decompress(SubArray(data, h.pos, h.pos + h.chunkSize - 4),
                              h.uncompressedSize)
           ELSE SubArray(data, h.pos, h.pos + h.chunkSize), LAMBDA active :
      IF isYuv
      THEN decodeYuvFrameData(d, IF isCompressed THEN active ELSE data,
                              IF isCompressed THEN 0 ELSE h.pos,
                              h.chunkType = QOV_CHUNK_PFRAME)
      ELSE IF h.chunkType = QOV_CHUNK_KEYFRAME
      THEN decodeRgbKeyframeFromData(d, active)
      ELSE decodeRgbPFrameFromData(d, active, HasFlag(h.chunkFlags, 2)))

\* the loop of decodeFrames from pos on: the frames it yields
RECURSIVE FramesLoop(_, _, _, _, _)
FramesLoop(d, data, pos, frames, fuel) ==
  IF ~(pos < Len(data)) \/ fuel = 0 THEN frames
  ELSE With(readChunkHeader(data, pos), LAMBDA h :
       IF h.pos + h.chunkSize > Len(data) THEN frames
       ELSE IF h.chunkType = QOV_CHUNK_END THEN frames
       ELSE IF h.chunkType \in {QOV_CHUNK_KEYFRAME, QOV_CHUNK_PFRAME}
       THEN With(decodeChunkData(d, data, h), LAMBDA d1 :
            FramesLoop(d1, data,
                       IF HasFlag(h.chunkFlags, QOV_CHUNK_FLAG_COMPRESSED)
                       THEN h.pos + h.chunkSize - 4 ELSE h.pos + h.chunkSize,
                       Append(frames,
                              [kind |-> "frame", pixels |-> d1.prevFrame,
                               timestamp |-> h.timestamp,
                               isKeyframe |-> h.chunkType = QOV_CHUNK_KEYFRAME,
                               frameNumber |-> Len(frames)]),
                       fuel - 1))
       ELSE FramesLoop(d, data, h.pos + h.chunkSize, frames, fuel - 1))

\* new QovDecoder(data).decodeFrames(), run to its end
decodeFrames(data) ==
  IF ~HeaderAccepted(data) THEN <<>>
  ELSE FramesLoop(decodeHeader(data), data, 24, <<>>, MaxPasses)

\* the frames the streaming decoder returns when decodeFrame is awaited for
\* 0, 1, 2, ... in order until it returns no frame
RECURSIVE DecodeInOrder(_, _, _, _)
DecodeInOrder(d, data, frameIndex, frames) ==
  With(decodeFrame(d, data, frameIndex), LAMBDA r :
       IF r.ret.kind # "frame" \/ frameIndex > Len(data) THEN frames
       ELSE DecodeInOrder(r.dec, data, frameIndex + 1, Append(frames, r.ret)))

(***************************************************************************)
(* Specification SpecEquiv: an encoder session, then both decoders over    *)
(* the finished file or over the file cut after its last frame chunk.      *)
(***************************************************************************)
InitEquiv ==
  /\ enc \in {NewEncoder(Width, 1, QOV_FLAG_HAS_INDEX, c[1], c[2]) :
                c \in {<<QOV_COLORSPACE_SRGB, FALSE>>, <<QOV_COLORSPACE_SRGB, TRUE>>,
                       <<QOV_COLORSPACE_YUV420, FALSE>>,
                       <<QOV_COLORSPACE_YUV444, TRUE>>}}
  /\ sent = <<>> /\ trace = <<>> /\ layout = <<>> /\ file = <<>>
  /\ dec = NewDecoder
  /\ ret = [frameIndex |-> -1, result |-> NullResult]
  /\ src = FileDataSource(<<>>)
  /\ bi = IdleIndex
  /\ calls = <<>> /\ timers = <<>> /\ clock = 0 /\ log = <<>>
  /\ lz = NoBlock

\* the file up to the end of its last frame chunk (the whole file when it
\* has no frame)
CutAfterLastFrame ==
  LET after == {k \in 1..Len(layout) :
                  /\ layout[k].type \in {QOV_CHUNK_INDEX, QOV_CHUNK_END}
                  /\ \E j \in 1..(k - 1) : IsFrame(layout[j])}
  IN  IF after = {} THEN file
      ELSE SubArray(file, 0, layout[CHOOSE k \in after : \A j \in after : k <= j].offset)

\* both decoders run over the same bytes; log holds what each produced
DecodeBoth ==
  /\ file # <<>>
  /\ log = <<>>
  /\ \E data \in {file, CutAfterLastFrame} :
       log' = <<[cut |-> data # file, data |-> data,
                 full |-> decodeFrames(data),
                 streaming |-> DecodeInOrder(NewDecoder, data, 0, <<>>)]>>
  /\ UNCHANGED <<enc, sent, trace, layout, file, dec, ret, src, bi, calls, timers, clock, lz>>

NextEquiv == WriteHeader \/ EncodeKeyframe \/ EncodePFrame \/ Finish \/ DecodeBoth

SpecEquiv == InitEquiv /\ [][NextEquiv]_vars

\* C34: decoder equivalence.  For a file the encoder produced, whole or cut
\* after its last frame chunk, decodeFrames of the full-file decoder yields
\* the frames (count, pixels, timestamps, keyframe flags) the streaming
\* decoder returns for decodeFrame(0), decodeFrame(1), ... in order.
DecoderEquivalence ==
  \A i \in 1..Len(log) : log[i].full = log[i].streaming

(***************************************************************************)
(* Specification SpecSlots: the three encoder loops that write INDEX       *)
(* opcodes, each applied to one short row of pixels or one short plane,    *)
(* from a freshly reset cache.  sent holds the input: <<row>> or           *)
(* <<plane, previous plane>>.                                              *)
(***************************************************************************)
\* samples in one row or plane
SlotWidth == 3

SlotRows == [1..SlotWidth -> {Palette.K, Palette.Z, Palette.R, Palette.D}]

\* plane values: 0 and 64 hash to slot 0, 50 and 100 to slots 22 and 44
SlotPlanes == [1..SlotWidth -> {0, 50, 64, 100}]

InitSlots ==
  /\ sent \in {<<row>> : row \in SlotRows}
                \cup {<<plane, prev>> : plane \in SlotPlanes, prev \in SlotPlanes}
  /\ enc = NewEncoder(SlotWidth, 1, 0, QOV_COLORSPACE_SRGB, FALSE)
  /\ trace = <<>> /\ layout = <<>> /\ file = <<>>
  /\ dec = NewDecoder
  /\ ret = [frameIndex |-> -1, result |-> NullResult]
  /\ src = FileDataSource(<<>>)
  /\ bi = IdleIndex
  /\ calls = <<>> /\ timers = <<>> /\ clock = 0 /\ log = <<>>
  /\ lz = NoBlock

\* the loop of encodeKeyframe on the row, after resetRgbIndex
EncodeRgbRow ==
  /\ Len(sent) = 1
  /\ log = <<>>
  /\ log' = <<[kind |-> "rgb", samples |-> sent[1], refs |-> <<>>,
               out |-> encodeRgbKeyframeData(sent[1], SlotWidth, 0, 0, EmptyRgbIndex,
                                             OpaqueBlack, <<>>, <<>>).out]>>
  /\ UNCHANGED <<enc, sent, trace, layout, file, dec, ret, src, bi, calls, timers, clock, lz>>

EncodePlaneKeyframe ==
  /\ Len(sent) = 2
  /\ log = <<>>
  /\ log' = <<[kind |-> "plane", samples |-> sent[1], refs |-> <<>>,
               out |-> encodeYuvPlaneKeyframe(sent[1], 0, 0, 0, EmptyYuvIndex,
                                              <<>>, <<>>).out]>>
  /\ UNCHANGED <<enc, sent, trace, layout, file, dec, ret, src, bi, calls, timers, clock, lz>>

EncodePlanePFrame ==
  /\ Len(sent) = 2
  /\ log = <<>>
  /\ log' = <<[kind |-> "plane", samples |-> sent[1], refs |-> sent[2],
               out |-> encodeYuvPlanePFrame(sent[1], sent[2], 0, 0, EmptyYuvIndex,
                                            <<>>, <<>>, <<>>).out]>>
  /\ UNCHANGED <<enc, sent, trace, layout, file, dec, ret, src, bi, calls, timers, clock, lz>>

NextSlots == EncodeRgbRow \/ EncodePlaneKeyframe \/ EncodePlanePFrame

SpecSlots == InitSlots /\ [][NextSlots]_vars

\* the opcodes of a written stream, paired with the samples they encode:
\* the INDEX opcodes among them, each with the set of cache slots that the
\* opcodes before it have stored a sample in.  A byte 0x00 at a sample
\* equal to its reference is a SKIP_LONG, elsewhere INDEX 0.
RECURSIVE IndexOps(_, _, _, _, _, _, _)
IndexOps(yuv, ops, pos, samples, refs, px, written) ==
  IF px >= Len(samples) \/ pos >= Len(ops) THEN <<>>
  ELSE LET b == At(ops, pos)
       IN  IF b >= 192 /\ b < 254
           THEN IndexOps(yuv, ops, pos + 1, samples, refs, px + (b % 64) + 1, written)
           ELSE IF b = 0 /\ refs # <<>> /\ samples[px + 1] = refs[px + 1]
           THEN IndexOps(yuv, ops, pos + 3, samples, refs,
                         px + ReadU16(ops, pos + 1), written)
           ELSE (IF b < 64 THEN <<[px |-> px, slot |-> b, written |-> written]>>
                 ELSE <<>>)
                \o IndexOps(yuv, ops, pos + OpcodeSize(b, yuv), samples, refs, px + 1,
                            written \cup {IF yuv THEN yuvHash(samples[px + 1])
                                          ELSE colorHash(samples[px + 1])})

\* the INDEX opcodes of the stream in log
LoggedIndexOps(c) ==
  IndexOps(c.kind = "plane", c.out, 0, c.samples, c.refs, 0, {})

\* C35: no INDEX for an uninitialised slot.  The encoder writes an INDEX
\* opcode for a cache slot only if an earlier opcode since the last reset
\* of the cache stored a sample in that slot (RGB keyframes, YUV keyframe
\* planes, YUV P-frame planes).
IndexOnlyWritten ==
  \A i \in 1..Len(log) :
     \A k \in 1..Len(LoggedIndexOps(log[i])) :
        LoggedIndexOps(log[i])[k].slot \in LoggedIndexOps(log[i])[k].written

(***************************************************************************)
(* C# encoder (QovEncoder.cs): the RGB frame loops.  _colorCache is a      *)
(* QovPixel[64]; Array.Clear sets every slot to the zero pixel.            *)
(***************************************************************************)
\* the loop of EncodeRgbKeyframe: [out, colorCache]
RECURSIVE EncodeRgbKeyframe(_, _, _, _, _, _, _)
EncodeRgbKeyframe(pixels, pixelCount, px, runCount, colorCache, prevPixel, out) ==
  IF ~(px < pixelCount) THEN [out |-> out \o EndMarker, colorCache |-> colorCache]
  ELSE LET current == pixels[px + 1]
           hash    == colorHash(current)
       IN  IF current = prevPixel
           THEN IF runCount + 1 = 62 \/ px = pixelCount - 1
                THEN EncodeRgbKeyframe(pixels, pixelCount, px + 1, 0, colorCache,
                                       prevPixel, out \o <<192 + runCount>>)
                ELSE EncodeRgbKeyframe(pixels, pixelCount, px + 1, runCount + 1,
                                       colorCache, prevPixel, out)
           ELSE LET flushed == IF runCount > 0 THEN out \o <<192 + runCount - 1>>
                               ELSE out
                IN  IF colorCache[hash] = current
                    THEN EncodeRgbKeyframe(pixels, pixelCount, px + 1, 0, colorCache,
                                           current, flushed \o <<hash>>)
                    ELSE EncodeRgbKeyframe(pixels, pixelCount, px + 1, 0,
                                           [colorCache EXCEPT ![hash] = current],
                                           current,
                                           flushed \o RgbLiteralOp(current, prevPixel))

\* the skip EncodeRgbPFrame writes for a pending count; the count of a long
\* skip is written by BinaryWriter, low byte first
CsSkipOp(skipCount) ==
  IF skipCount <= 62 THEN <<192 + skipCount - 1>>
  ELSE <<0, skipCount % 256, skipCount \div 256>>

\* the loop of EncodeRgbPFrame: [out, colorCache]
RECURSIVE EncodeRgbPFrame(_, _, _, _, _, _, _)
EncodeRgbPFrame(pixels, prevFrame, pixelCount, px, skipCount, colorCache, out) ==
  IF ~(px < pixelCount) THEN [out |-> out \o EndMarker, colorCache |-> colorCache]
  ELSE LET current == pixels[px + 1]
           prev    == prevFrame[px + 1]
           hash    == colorHash(current)
           op      == RgbLiteralOp(current, prev)
       IN  IF current = prev
           THEN IF skipCount + 1 = 62 \/ px = pixelCount - 1
                THEN EncodeRgbPFrame(pixels, prevFrame, pixelCount, px + 1, 0,
                                     colorCache, out \o CsSkipOp(skipCount + 1))
                ELSE EncodeRgbPFrame(pixels, prevFrame, pixelCount, px + 1,
                                     skipCount + 1, colorCache, out)
           ELSE EncodeRgbPFrame(pixels, prevFrame, pixelCount, px + 1, 0,
                                IF op[1] < 192
                                THEN [colorCache EXCEPT ![hash] = current]
                                ELSE colorCache,
                                (IF skipCount > 0 THEN out \o CsSkipOp(skipCount)
                                 ELSE out) \o op)

(***************************************************************************)
(* Specification SpecCache: the RGB P-frame loops of the TypeScript and    *)
(* the C# encoder, each applied to a short row of pixels.  sent holds the  *)
(* input <<pixels, previous frame>>; the colour cache is what the keyframe *)
(* loop of the same encoder leaves after the previous frame.               *)
(***************************************************************************)
\* pixels in one row
CacheWidth == 2

CacheRows == [1..CacheWidth -> {Palette.K, Palette.D, Palette.L, Palette.R, Palette.A}]

InitCache ==
  /\ sent \in {<<pixels, prev>> : pixels \in CacheRows, prev \in CacheRows}
  /\ enc = NewEncoder(CacheWidth, 1, 0, QOV_COLORSPACE_SRGB, FALSE)
  /\ trace = <<>> /\ layout = <<>> /\ file = <<>>
  /\ dec = NewDecoder
  /\ ret = [frameIndex |-> -1, result |-> NullResult]
  /\ src = FileDataSource(<<>>)
  /\ bi = IdleIndex
  /\ calls = <<>> /\ timers = <<>> /\ clock = 0 /\ log = <<>>
  /\ lz = NoBlock

\* one pass of a P-frame loop over sent: the cache before and after, and
\* the bytes written
CacheRecord(lang, before, r, after) ==
  [lang |-> lang, pixels |-> sent[1], refs |-> sent[2], before |-> before,
   after |-> after, out |-> r.out]

\* encodePFrame of qov-encoder.ts, RGB mode
EncodePFrameTs ==
  /\ log = <<>>
  /\ LET before == encodeRgbKeyframeData(sent[2], CacheWidth, 0, 0, EmptyRgbIndex,
                                         OpaqueBlack, <<>>, <<>>).rgbIndex
         r == encodeRgbPFrameData(sent[1], sent[2], CacheWidth, 0, 0, before,
                                  <<>>, <<>>)
     IN  log' = <<CacheRecord("ts", before, r, r.rgbIndex)>>
  /\ UNCHANGED <<enc, sent, trace, layout, file, dec, ret, src, bi, calls, timers, clock, lz>>

\* EncodeRgbPFrame of QovEncoder.cs
EncodePFrameCs ==
  /\ log = <<>>
  /\ LET before == EncodeRgbKeyframe(sent[2], CacheWidth, 0, 0, EmptyRgbIndex,
                                     OpaqueBlack, <<>>).colorCache
         r == EncodeRgbPFrame(sent[1], sent[2], CacheWidth, 0, 0, before, <<>>)
     IN  log' = <<CacheRecord("cs", before, r, r.colorCache)>>
  /\ UNCHANGED <<enc, sent, trace, layout, file, dec, ret, src, bi, calls, timers, clock, lz>>

NextCache == EncodePFrameTs \/ EncodePFrameCs

SpecCache == InitCache /\ [][NextCache]_vars

\* the cache after every pixel from px on that differs from its reference
\* pixel (the pixels written by an opcode other than SKIP) has been stored
\* in the slot of its hash, in order
RECURSIVE StoreChanged(_, _, _, _)
StoreChanged(pixels, refs, px, cache) ==
  IF px >= Len(pixels) THEN cache
  ELSE StoreChanged(pixels, refs, px + 1,
                    IF pixels[px + 1] = refs[px + 1] THEN cache
                    ELSE [cache EXCEPT ![colorHash(pixels[px + 1])] = pixels[px + 1]])

\* C36: cache update discipline.  In the TypeScript and in the C# RGB
\* P-frame encoder every opcode other than SKIP stores its pixel in cache
\* slot hash(pixel) and the SKIP opcodes leave the cache as it is: after the
\* loop the cache is the cache before it with the changed pixels stored.
CacheDiscipline ==
  \A i \in 1..Len(log) :
     log[i].after = StoreChanged(log[i].pixels, log[i].refs, 0, log[i].before)

(***************************************************************************)
(* The SKIP opcodes of RGB P-frames, under SpecRun.                        *)
(***************************************************************************)
\* the stretches of unchanged pixels of a frame over its reference frame,
\* each as long as it can be: <<first, last>> (1-based), in frame order
Stretches(pixels, refs) ==
  LET same(k)  == pixels[k] = refs[k]
      N        == Len(pixels)
      starts   == {k \in 1..N : same(k) /\ (k = 1 \/ ~same(k - 1))}
      last(k)  == CHOOSE e \in k..N :
                    /\ \A j \in k..e : same(j)
                    /\ (e = N \/ ~same(e + 1))
      nth(i)   == CHOOSE k \in starts : Cardinality({j \in starts : j < k}) = i - 1
  IN  [i \in 1..Cardinality(starts) |-> <<nth(i), last(nth(i))>>]

\* the SKIP and SKIP_LONG opcodes of a written RGB P-frame stream, in order,
\* each with the pixel it starts at (0-based) and its bytes
RECURSIVE SkipOps(_, _, _, _)
SkipOps(ops, pos, px, pixelCount) ==
  IF px >= pixelCount \/ pos >= Len(ops) THEN <<>>
  ELSE LET b == At(ops, pos)
       IN  IF b >= 192 /\ b < 254
           THEN <<[px |-> px, bytes |-> <<b>>]>>
                \o SkipOps(ops, pos + 1, px + (b % 64) + 1, pixelCount)
           ELSE IF b = 0
           THEN <<[px |-> px, bytes |-> SubArray(ops, pos, pos + 3)]>>
                \o SkipOps(ops, pos + 3, px + ReadU16(ops, pos + 1), pixelCount)
           ELSE SkipOps(ops, pos + OpcodeSize(b, FALSE), px + 1, pixelCount)

\* call c of the log is an RGB P-frame encoded against a previous frame
IsRgbPFrame(c) ==
  c.op = "encodePFrame" /\ ~c.before.isYuvMode /\ c.before.prevFrame # <<>>

\* the opcode stream call c wrote, behind its 10-byte chunk header
WrittenStream(c) ==
  SubArray(c.after.buffer, Len(c.before.buffer) + 10, Len(c.after.buffer))

\* C37: SKIP versus SKIP_LONG.  In an RGB P-frame every stretch of
\* unchanged pixels is written as one opcode: SKIP (0xC0 | (n - 1)) when it
\* is at most 62 pixels long, SKIP_LONG (0x00 and the count as 16 bits, high
\* byte first) when it is longer.
SkipFlush ==
  \A i \in 1..Len(log) :
     IsRgbPFrame(log[i]) =>
       LET st == Stretches(log[i].pixels, log[i].before.prevFrame)
       IN  SkipOps(WrittenStream(log[i]), 0, 0, RunWidth)
             = [k \in 1..Len(st) |->
                  [px |-> st[k][1] - 1, bytes |-> SkipOp(st[k][2] - st[k][1] + 1)]]

(***************************************************************************)
(* Specification SpecOrder: the RGB keyframe loops of the TypeScript and   *)
(* the C# encoder, each applied to one short row of pixels (sent[1]) after *)
(* the reset of cache and previous pixel.                                  *)
(***************************************************************************)
\* pixels in one row
OrderWidth == 3

\* white is 255 away from black in every channel
White == <<255, 255, 255, 255>>

OrderRows ==
  [1..OrderWidth -> {Palette.K, Palette.D, Palette.L, Palette.R, Palette.A,
                     Palette.Z, White}]

InitOrder ==
  /\ sent \in {<<pixels>> : pixels \in OrderRows}
  /\ enc = NewEncoder(OrderWidth, 1, 0, QOV_COLORSPACE_SRGB, FALSE)
  /\ trace = <<>> /\ layout = <<>> /\ file = <<>>
  /\ dec = NewDecoder
  /\ ret = [frameIndex |-> -1, result |-> NullResult]
  /\ src = FileDataSource(<<>>)
  /\ bi = IdleIndex
  /\ calls = <<>> /\ timers = <<>> /\ clock = 0 /\ log = <<>>
  /\ lz = NoBlock

\* encodeKeyframe of qov-encoder.ts, RGB mode
EncodeKeyframeTs ==
  /\ log = <<>>
  /\ log' = <<[lang |-> "ts", pixels |-> sent[1],
               out |-> encodeRgbKeyframeData(sent[1], OrderWidth, 0, 0,
                                             EmptyRgbIndex, OpaqueBlack, <<>>,
                                             <<>>).out]>>
  /\ UNCHANGED <<enc, sent, trace, layout, file, dec, ret, src, bi, calls, timers, clock, lz>>

\* EncodeRgbKeyframe of QovEncoder.cs
EncodeKeyframeCs ==
  /\ log = <<>>
  /\ log' = <<[lang |-> "cs", pixels |-> sent[1],
               out |-> EncodeRgbKeyframe(sent[1], OrderWidth, 0, 0, EmptyRgbIndex,
                                         OpaqueBlack, <<>>).out]>>
  /\ UNCHANGED <<enc, sent, trace, layout, file, dec, ret, src, bi, calls, timers, clock, lz>>

NextOrder == EncodeKeyframeTs \/ EncodeKeyframeCs

SpecOrder == InitOrder /\ [][NextOrder]_vars

\* the opcodes in their order of preference
OpcodeOrder == <<"RUN", "INDEX", "DIFF", "LUMA", "RGB", "RGBA">>

\* the opcode a first byte belongs to
OpcodeKind(b) ==
  IF b = 255 THEN "RGBA" ELSE IF b = 254 THEN "RGB" ELSE IF b >= 192 THEN "RUN"
  ELSE IF b >= 128 THEN "LUMA" ELSE IF b >= 64 THEN "DIFF" ELSE "INDEX"

\* an opcode of the kind can stand for pixel c after pixel prev with the
\* given cache: the differences are those of the channel values
OpcodeApplies(kind, c, prev, cache) ==
  LET dr == c[1] - prev[1]
      dg == c[2] - prev[2]
      db == c[3] - prev[3]
  IN  CASE kind = "RUN"   -> c = prev
        [] kind = "INDEX" -> cache[colorHash(c)] = c
        [] kind = "DIFF"  -> c[4] = prev[4] /\ {dr, dg, db} \subseteq -2..1
        [] kind = "LUMA"  -> /\ c[4] = prev[4]
                             /\ dg \in -32..31
                             /\ {dr - dg, db - dg} \subseteq -8..7
        [] kind = "RGB"   -> c[4] = prev[4]
        [] kind = "RGBA"  -> TRUE

\* the first opcode in the order of preference that applies
FirstOpcode(c, prev, cache) ==
  OpcodeOrder[CHOOSE i \in 1..6 :
                /\ OpcodeApplies(OpcodeOrder[i], c, prev, cache)
                /\ \A j \in 1..(i - 1) : ~OpcodeApplies(OpcodeOrder[j], c, prev, cache)]

\* every opcode of the stream from pos on is the first that applies to its
\* pixel; prev and cache are followed as a decoder follows them
RECURSIVE InPreferenceOrder(_, _, _, _, _, _)
InPreferenceOrder(ops, pos, pixels, px, prev, cache) ==
  IF px >= Len(pixels) THEN TRUE
  ELSE LET b == At(ops, pos)
           c == pixels[px + 1]
       IN  IF OpcodeKind(b) = "RUN"
           THEN /\ px + (b % 64) + 1 <= Len(pixels)
                /\ \A j \in (px + 1)..(px + (b % 64) + 1) : pixels[j] = prev
                /\ InPreferenceOrder(ops, pos + 1, pixels, px + (b % 64) + 1, prev,
                                     cache)
           ELSE /\ OpcodeKind(b) = FirstOpcode(c, prev, cache)
                /\ InPreferenceOrder(ops, pos + OpcodeSize(b, FALSE), pixels, px + 1, c,
                                     [cache EXCEPT ![colorHash(c)] = c])

RECURSIVE Lz4WrittenLen(_, _, _)
Lz4WrittenLen(block, pos, acc) ==
  IF At(block, pos) = 255 THEN Lz4WrittenLen(block, pos + 1, acc + 255)
  ELSE <<acc + At(block, pos), pos + 1>>

\* the sequences from position pos of the block on; start is the position
\* in the input of a sequence's first literal.  A sequence that ends with
\* its literals has offset 0 and matchLen 0.
RECURSIVE Lz4Sequences(_, _, _)
Lz4Sequences(block, pos, start) ==
  IF ~(pos < Len(block)) THEN <<>>
  ELSE LET token == At(block, pos)
           lit   == IF token \div 16 = 15 THEN Lz4WrittenLen(block, pos + 1, 15)
                    ELSE <<token \div 16, pos + 1>>
           offAt == lit[2] + lit[1]
           mat   == IF token % 16 = 15 THEN Lz4WrittenLen(block, offAt + 2, 19)
                    ELSE <<(token % 16) + 4, offAt + 2>>
       IN  IF ~(offAt < Len(block))
           THEN <<[literalLen |-> lit[1], offset |-> 0, matchLen |-> 0,
                   matchPos |-> start + lit[1]]>>
           ELSE <<[literalLen |-> lit[1],
                   offset |-> At(block, offAt) + 256 * At(block, offAt + 1),
                   matchLen |-> mat[1], matchPos |-> start + lit[1]]>>
                \o Lz4Sequences(block, mat[2], start + lit[1] + mat[1])

\* C39: LZ4 end-of-block rule.  In every block lz4Compress produces, each
\* match has a back-offset in 1..65535 and a length of at least 4, no match
\* covers any of the last 5 bytes of the input, and the final sequence is
\* literal-only and holds at least the last 5 bytes of the input (all of
\* them when the input is shorter).
Lz4EndOfBlock ==
  lz.pc \in {"compressed", "restored"} /\ Len(lz.input) > 0 =>
    LET seqs == Lz4Sequences(lz.block, 0, 0)
        n    == Len(seqs)
        last == IF Len(lz.input) < 5 THEN Len(lz.input) ELSE 5
    IN  /\ n > 0
        /\ seqs[n].matchLen = 0
        /\ seqs[n].literalLen >= last
        /\ \A k \in 1..(n - 1) :
              /\ seqs[k].offset \in 1..65535
              /\ seqs[k].matchLen >= 4
              /\ seqs[k].matchPos + seqs[k].matchLen <= Len(lz.input) - 5

(***************************************************************************)
(* decodeFrame with a frame index outside 0 .. totalFrames - 1, under      *)
(* Spec.  Once the file is finished every step is a decodeFrame call, and  *)
(* ret' holds the index it was called with.                                *)
(***************************************************************************)
\* the call that has just returned had an index out of range
OutOfRange(frameIndex, d) == frameIndex < 0 \/ frameIndex >= d.totalFrames

====
